---- MODULE Spec2Model ----
(***************************************************************************)
(* Baseline-CLI: the result classifier (utils/parsers.ts, commands/check.ts), *)
(* the per-file parse entry points, the check command's run and the CSS    *)
(* walker of utils/language-server.ts.                                     *)
(*                                                                         *)
(* Conventions.  The TypeScript value `false` of BaselineStatus is written *)
(* NotBaseline (the string "false"), `undefined`/`null` is Undefined, and  *)
(* a thrown exception is an outcome record whose kind names its class.     *)
(***************************************************************************)
EXTENDS Integers, Sequences, FiniteSets, TLC

(***************************************************************************)
(* Bounds of the model.                                                    *)
(***************************************************************************)
MaxFeatures == 2      \* features one walker run emits, at most
MaxFiles == 2         \* files in the queue of one check run, at most
MaxRules == 1         \* entries of config.rules, at most

Undefined == "undefined"
NotBaseline == "false"
\* null: what applyConfigRules' map callback returns for an 'off' rule,
\* what loadConfig returns when there is no usable configuration file
Null == [null |-> TRUE]

(***************************************************************************)
(* The feature dataset (package web-features), a snapshot of its entries:   *)
(* widely available, newly available, limited (baseline false) and one     *)
(* without compat keys.  A dotted key is the tuple of its segments         *)
(* ("css.selectors.has" is <<"css", "selectors", "has">>), a feature id    *)
(* the one-segment key Key(id).                                            *)
(***************************************************************************)
Key(id) == <<id>>

features ==
    << [id |-> "fetch", name |-> "Fetch", baseline |-> "high",
        compat_features |-> << <<"api", "fetch">> >>],
       [id |-> "has", name |-> ":has()", baseline |-> "low",
        compat_features |-> << <<"css", "selectors", "has">> >>],
       [id |-> "anchor-positioning", name |-> "Anchor positioning",
        baseline |-> NotBaseline,
        compat_features |-> << <<"css", "properties", "anchor-name">> >>],
       [id |-> "grid", name |-> "Grid", baseline |-> "high",
        compat_features |-> << <<"css", "properties", "display", "grid">>,
                               <<"css", "properties", "grid">> >>],
       [id |-> "backdrop-filter", name |-> "backdrop-filter",
        baseline |-> "low",
        compat_features |-> << <<"css", "properties", "backdrop-filter">> >>],
       [id |-> "dom", name |-> "DOM", baseline |-> "high",
        compat_features |-> <<>>],
       [id |-> "container-queries", name |-> "Container queries",
        baseline |-> "low",
        compat_features |-> << <<"css", "at-rules", "container">> >>],
       [id |-> "intersection-observer", name |-> "Intersection observer",
        baseline |-> "high",
        compat_features |-> << <<"api", "IntersectionObserver">>,
                               <<"api", "IntersectionObserver", "observe">> >>],
       [id |-> "dialog", name |-> "<dialog>", baseline |-> "high",
        compat_features |-> << <<"html", "elements", "dialog">> >>],
       [id |-> "popover", name |-> "Popover", baseline |-> "low",
        compat_features |-> << <<"html", "global_attributes", "popover">>,
                               <<"html", "elements", "button", "attributes",
                                 "popovertarget">> >>],
       [id |-> "line-clamp", name |-> "line-clamp", baseline |-> "low",
        compat_features |-> << <<"css", "properties",
                                 "-webkit-line-clamp">> >>] >>

\* Map.set: last write wins.
MapSet(m, k, v) == [x \in (DOMAIN m) \cup {k} |-> IF x = k THEN v ELSE m[x]]

RECURSIVE SetCompatKeys(_, _, _)
SetCompatKeys(idx, keys, rec) ==
    IF keys = <<>> THEN idx
    ELSE SetCompatKeys(MapSet(idx, Head(keys), rec), Tail(keys), rec)

RECURSIVE BuildIndex(_, _)
BuildIndex(idx, entries) ==
    IF entries = <<>> THEN idx
    ELSE LET feature == Head(entries)
             status == feature.baseline
             rec == [status |-> status, featureName |-> feature.name,
                     featureId |-> feature.id]
         IN  IF status # NotBaseline
             THEN BuildIndex(
                    SetCompatKeys(MapSet(idx, Key(feature.id), rec),
                                  feature.compat_features, rec),
                    Tail(entries))
             ELSE BuildIndex(idx, Tail(entries))

\* the Dataset Index: key -> {status, featureName, featureId}
EmptyMap == [x \in {} |-> Null]
getCompatFeaturesIndex == BuildIndex(EmptyMap, features)

checkBaselineStatus(featureIdOrCompat) ==
    LET index == getCompatFeaturesIndex
    IN  IF featureIdOrCompat \in DOMAIN index
        THEN index[featureIdOrCompat].status
        ELSE NotBaseline

(***************************************************************************)
(* Detected features and results.                                          *)
(***************************************************************************)
\* names a walker can emit: dataset ids of each status, and a walker-only
\* name ("css-grid") that the dataset does not know
FeatureNames == {"fetch", "has", "anchor-positioning", "css-grid"}
Positions == {<<1, 1>>, <<2, 3>>}
DetectedFeatures ==
    {[name |-> n, line |-> p[1], column |-> p[2]] :
        n \in FeatureNames, p \in Positions}

SeqsUpTo(S, n) == UNION {[1..k -> S] : k \in 0..n}

StatusWord(status) ==
    IF status = "high" THEN "fully baseline"
    ELSE IF status = "low" THEN "newly baseline" ELSE "not baseline"

convertToFeatureResult_SwapSeverity(detectedFeature) ==
    LET baselineStatus == checkBaselineStatus(Key(detectedFeature.name))
        status == IF baselineStatus \in {"high", "low"}
                  THEN baselineStatus ELSE NotBaseline
        severity == IF status = NotBaseline THEN "error"
                    ELSE IF status = "low" THEN "info" ELSE "warn"
    IN  [feature |-> detectedFeature.name, status |-> status,
         severity |-> severity, line |-> detectedFeature.line,
         column |-> detectedFeature.column,
         message |-> StatusWord(status), fixable |-> FALSE]

convertToFeatureResult(detectedFeature) ==
    LET baselineStatus == checkBaselineStatus(Key(detectedFeature.name))
        \* typeof baselineStatus === 'string' ? baselineStatus : false
        status == IF baselineStatus \in {"high", "low"}
                  THEN baselineStatus ELSE NotBaseline
        severity == IF status = NotBaseline THEN "error"
                    ELSE IF status = "low" THEN "warn" ELSE "info"
    IN  [feature |-> detectedFeature.name, status |-> status,
         severity |-> severity, line |-> detectedFeature.line,
         column |-> detectedFeature.column,
         message |-> StatusWord(status), fixable |-> FALSE]

MapSeq(F(_), s) == [k \in 1..Len(s) |-> F(s[k])]

RECURSIVE FilterSeq(_, _)
FilterSeq(Keep(_), s) ==
    IF s = <<>> THEN <<>>
    ELSE IF Keep(Head(s)) THEN <<Head(s)>> \o FilterSeq(Keep, Tail(s))
    ELSE FilterSeq(Keep, Tail(s))

RECURSIVE FlatMap(_, _)
FlatMap(F(_), s) ==
    IF s = <<>> THEN <<>> ELSE F(Head(s)) \o FlatMap(F, Tail(s))

CountSeq(P(_), s) == Cardinality({k \in 1..Len(s) : P(s[k])})

\* config.rules[name]
RuleOf(rules, name) == IF name \in DOMAIN rules THEN rules[name] ELSE Undefined

applyConfigRules_KeepOff(feats, config) ==
    MapSeq(LAMBDA f :
             LET rule == RuleOf(config.rules, f.feature)
             IN  IF rule \in {"error", "warn"}
                 THEN [f EXCEPT !.severity = rule] ELSE f,
           feats)

applyConfigRules(feats, config) ==
    LET mapped == MapSeq(LAMBDA f :
                     LET rule == RuleOf(config.rules, f.feature)
                     IN  IF rule = "off" THEN Null
                         ELSE IF rule # Undefined
                              THEN [f EXCEPT !.severity = rule]
                              ELSE f,
                     feats)
    IN  FilterSeq(LAMBDA f : f # Null, mapped)

applyTargetBaseline_DemoteAll(feats, targetBaseline) ==
    IF targetBaseline = "low"
    THEN MapSeq(LAMBDA f :
                  IF f.severity = "warn"
                  THEN [f EXCEPT !.severity = "info"] ELSE f,
                feats)
    ELSE feats

applyTargetBaseline(feats, targetBaseline) ==
    IF targetBaseline = "low"
    THEN MapSeq(LAMBDA f :
                  IF f.status = "low" /\ f.severity = "warn"
                  THEN [f EXCEPT !.severity = "info"] ELSE f,
                feats)
    ELSE feats

(***************************************************************************)
(* Configuration (types/index.ts BaselineConfig; only the fields the check *)
(* command reads after file discovery).                                    *)
(***************************************************************************)
RuleValues == {"error", "warn", "off"}
RuleMapsOver(names) ==
    UNION {[D -> RuleValues] :
             D \in {S \in SUBSET names : Cardinality(S) <= MaxRules}}

ConfigsOver(names) ==
    [strict : BOOLEAN, targets : [baseline : {"high", "low"}],
     rules : RuleMapsOver(names)]

getDefaultConfig ==
    [strict |-> FALSE, targets |-> [baseline |-> "high"], rules |-> <<>>]

(***************************************************************************)
(* Files and the per-file parse entry points (utils/parsers.ts).           *)
(***************************************************************************)
MAX_FILE_SIZE == 10 * 1024 * 1024

None == 0 - 1
FileSizes == {0, MAX_FILE_SIZE - 1, MAX_FILE_SIZE, MAX_FILE_SIZE + 1}
Exts == {"css", "js", "html", "md"}

\* A source text, as the walker sees it: the features the walk emits in
\* order, the point at which the parser or the walk throws (None: it does
\* not; k: after k features were pushed), the validation diagnostics.
SourcesOver(dets) ==
    {[detected |-> d, throwAt |-> t, diagnostics |-> g] :
        d \in SeqsUpTo(dets, MaxFeatures),
        t \in None..MaxFeatures,
        g \in {<<>>, <<"diagnostic">>}}

FilesOver(dets) ==
    {f \in [ext : Exts, exists : BOOLEAN, size : FileSizes,
            readable : BOOLEAN, source : SourcesOver(dets)] :
        f.source.throwAt <= Len(f.source.detected)}

LanguageServerParse_DropPartial(source) ==
    IF source.throwAt = None
    THEN [features |-> source.detected, errors |-> source.diagnostics]
    ELSE [features |-> <<>>, errors |-> <<"parsing error">>]

\* LanguageServerParser.parseCSS / parseJS / parseHTML: the walk and the
\* validation run inside one try block whose catch pushes one error entry.
LanguageServerParse(source) ==
    IF source.throwAt = None
    THEN [features |-> source.detected, errors |-> source.diagnostics]
    ELSE [features |-> SubSeq(source.detected, 1, source.throwAt),
          errors |-> <<"parsing error">>]

Thrown(kind, read) ==
    [kind |-> kind, contentRead |-> read, parserInvoked |-> FALSE,
     results |-> <<>>, parseErrors |-> <<>>]

ParseWith_RejectAtLimit(file) ==
    IF ~file.exists THEN Thrown("FileSystemError", FALSE)
    ELSE IF file.size >= MAX_FILE_SIZE THEN Thrown("FileSizeError", FALSE)
    ELSE IF ~file.readable THEN Thrown("ParsingError", FALSE)
    ELSE LET parseResult == LanguageServerParse(file.source)
         IN  [kind |-> "returned", contentRead |-> TRUE,
              parserInvoked |-> TRUE,
              results |-> MapSeq(convertToFeatureResult,
                                 parseResult.features),
              parseErrors |-> parseResult.errors]

\* parseCSS, parseJS and parseHTML of utils/parsers.ts have the same body:
\* existsSync, statSync and the size test, readFileSync (an unreadable file
\* makes it throw a plain Error, which the catch wraps as ParsingError), the
\* parser call, the conversion of its features.
ParseWith(file) ==
    IF ~file.exists THEN Thrown("FileSystemError", FALSE)
    ELSE IF file.size > MAX_FILE_SIZE THEN Thrown("FileSizeError", FALSE)
    ELSE IF ~file.readable THEN Thrown("ParsingError", FALSE)
    ELSE LET parseResult == LanguageServerParse(file.source)
         IN  [kind |-> "returned", contentRead |-> TRUE,
              parserInvoked |-> TRUE,
              results |-> MapSeq(convertToFeatureResult,
                                 parseResult.features),
              parseErrors |-> parseResult.errors]

parseCSS(file) == ParseWith(file)
parseJS(file) == ParseWith(file)
parseHTML(file) == ParseWith(file)

parseFile(file) ==
    IF file.ext = "css" THEN parseCSS(file)
    ELSE IF file.ext = "js" THEN parseJS(file)
    ELSE IF file.ext = "html" THEN parseHTML(file)
    ELSE [kind |-> "returned", contentRead |-> FALSE,
          parserInvoked |-> FALSE, results |-> <<>>, parseErrors |-> <<>>]

(***************************************************************************)
(* State.                                                                  *)
(***************************************************************************)
VARIABLES
    pc,             \* position of checkCommand.execute
    args,           \* command line: [strict: "--strict" is among the args]
    configFile,     \* what loadConfig returns: a config, or Null
    options,        \* parseCheckOptions(args)
    config,         \* the configuration in effect after the overrides
    nFiles,         \* filesToCheck.length
    i,              \* loop index, 1-based: the file about to be checked
    file,           \* filesToCheck[i] of the iteration that ran last
    outcome,        \* what parseFile(file) did in that iteration
    results,        \* results: BaselineResult[]
    totalErrors,
    totalWarnings,
    exitCode,       \* the process's exit code once pc = "done"
    cl,             \* the classifier pipeline on one list, stage by stage
    pf,             \* one call of parseFile: the file and its outcome
    css,            \* one run of the CSS walker: nodes to visit, features
    fx,             \* one run of fixCommand.execute
    rp,             \* a process making parse calls one after another
    fac,            \* concurrent callers of getWebFeaturesMapper
    mq,             \* one mapping query on a mapper
    gp,             \* one call of generatePatterns
    ix,             \* the module state of utils/index.ts and its calls
    ini,            \* one run of initCommand.execute
    pv,             \* the AI provider of one fix run, from the command line on
    bi,             \* one build of the Dataset Index over a dataset
    js,             \* one run of the JS walker on a call expression
    lc,             \* one load of the configuration at the start of a check run
    jt              \* one build of the JS API table over a dataset, and one lookup

runVars == <<pc, args, configFile, options, config, nFiles, i, file, outcome,
             results, totalErrors, totalWarnings, exitCode>>
vars == <<pc, args, configFile, options, config, nFiles, i, file, outcome,
          results, totalErrors, totalWarnings, exitCode, cl, pf, css, fx,
          rp, fac, mq, gp, ix,
          ini,
          pv,
          bi,
          js,
          lc,
          jt>>

Idle == [stage |-> "idle"]
NoFile == [ext |-> "none"]
NoOutcome == [kind |-> "none"]

\* the components added after the walker; each specification runs one
\* component and leaves the others idle
later == <<fx, rp, fac, mq, gp, ix,
          ini,
          pv,
          bi,
          js,
          lc,
          jt>>
LaterIdle(own) ==
    /\ (IF own = "fx" THEN TRUE ELSE fx = Idle)
    /\ (IF own = "rp" THEN TRUE ELSE rp = Idle)
    /\ (IF own = "fac" THEN TRUE ELSE fac = Idle)
    /\ (IF own = "mq" THEN TRUE ELSE mq = Idle)
    /\ (IF own = "gp" THEN TRUE ELSE gp = Idle)
    /\ (IF own = "ix" THEN TRUE ELSE ix = Idle)
    /\ (IF own = "ini" THEN TRUE ELSE ini = Idle)
    /\ (IF own = "pv" THEN TRUE ELSE pv = Idle)
    /\ (IF own = "bi" THEN TRUE ELSE bi = Idle)
    /\ (IF own = "js" THEN TRUE ELSE js = Idle)
    /\ (IF own = "lc" THEN TRUE ELSE lc = Idle)
    /\ (IF own = "jt" THEN TRUE ELSE jt = Idle)
LaterFrame(own) ==
    /\ (IF own = "fx" THEN TRUE ELSE UNCHANGED fx)
    /\ (IF own = "rp" THEN TRUE ELSE UNCHANGED rp)
    /\ (IF own = "fac" THEN TRUE ELSE UNCHANGED fac)
    /\ (IF own = "mq" THEN TRUE ELSE UNCHANGED mq)
    /\ (IF own = "gp" THEN TRUE ELSE UNCHANGED gp)
    /\ (IF own = "ix" THEN TRUE ELSE UNCHANGED ix)
    /\ (IF own = "ini" THEN TRUE ELSE UNCHANGED ini)
    /\ (IF own = "pv" THEN TRUE ELSE UNCHANGED pv)
    /\ (IF own = "bi" THEN TRUE ELSE UNCHANGED bi)
    /\ (IF own = "js" THEN TRUE ELSE UNCHANGED js)
    /\ (IF own = "lc" THEN TRUE ELSE UNCHANGED lc)
    /\ (IF own = "jt" THEN TRUE ELSE UNCHANGED jt)

(***************************************************************************)
(* The check command (commands/check.ts).                                  *)
(***************************************************************************)
\* The files a run draws from.  Their texts: no feature; one feature of
\* each baseline status (fetch: high, has: low, css-grid: not in the
\* dataset); mixed texts; texts on which the walk throws after one feature.
RunNames == {"fetch", "has", "css-grid"}
At1(n) == [name |-> n, line |-> 1, column |-> 1]
RunTexts ==
    { <<>>, <<At1("fetch")>>, <<At1("has")>>, <<At1("css-grid")>>,
      <<At1("has"), At1("fetch")>>, <<At1("has"), At1("css-grid")>> }
RunSources ==
    {[detected |-> d, throwAt |-> None, diagnostics |-> <<>>] : d \in RunTexts}
    \cup {[detected |-> d, throwAt |-> 1, diagnostics |-> <<>>] :
            d \in {t \in RunTexts : Len(t) > 1}}
EmptySource == [detected |-> <<>>, throwAt |-> None, diagnostics |-> <<>>]
RunFiles ==
    {[ext |-> "css", exists |-> TRUE, size |-> MAX_FILE_SIZE,
      readable |-> TRUE, source |-> src] : src \in RunSources}
    \cup
    {[ext |-> "css", exists |-> e, size |-> sz, readable |-> r,
      source |-> EmptySource] :
        e \in BOOLEAN, r \in BOOLEAN,
        sz \in {MAX_FILE_SIZE, MAX_FILE_SIZE + 1}}

parseCheckOptions(a) ==
    [strict |-> IF a.strict THEN TRUE ELSE FALSE]

\* line 100: passed
Passed(errors, warnings, strict) ==
    errors = 0 /\ (IF strict THEN warnings = 0 ELSE TRUE)

ExitCodeOf_ErrorsOnly(errorsTotal, warningsTotal, strict) ==
    IF errorsTotal > 0 THEN 1 ELSE 0

\* lines 198-206: process.exit(1), or a normal return (exit code 0)
ExitCodeOf(errorsTotal, warningsTotal, strict) ==
    LET hasErrors == errorsTotal > 0
        hasWarningsInStrict == strict /\ warningsTotal > 0
    IN  IF hasErrors \/ hasWarningsInStrict THEN 1 ELSE 0

RunInit ==
    /\ pc = "start"
    /\ args \in [strict : BOOLEAN]
    /\ configFile \in ConfigsOver(RunNames) \cup {Null}
    /\ options = Null
    /\ config = Null
    /\ nFiles = 0
    /\ i = 1
    /\ file = NoFile
    /\ outcome = NoOutcome
    /\ results = <<>>
    /\ totalErrors = 0
    /\ totalWarnings = 0
    /\ exitCode = 0
    /\ cl = Idle
    /\ pf = Idle
    /\ css = Idle
    /\ LaterIdle("none")

\* lines 13-22: options, loadConfig(...) || getDefaultConfig(), overrides
LoadOptionsAndConfig ==
    /\ pc = "start"
    /\ LET opts == parseCheckOptions(args)
           loaded == IF configFile # Null THEN configFile
                     ELSE getDefaultConfig
       IN  /\ options' = opts
           \* options.strict !== undefined
           /\ config' = IF "strict" \in DOMAIN opts
                         THEN [loaded EXCEPT !.strict = opts.strict]
                         ELSE loaded
    /\ pc' = "discover"
    /\ UNCHANGED <<args, configFile, nFiles, i, file, outcome, results,
                   totalErrors, totalWarnings, exitCode, cl, pf, css,
                   later>>

\* lines 30-68: statSync(targetPath) throws when the path does not exist
\* (caught at line 208: exit 1); an empty queue returns at line 64
DiscoverFiles ==
    /\ pc = "discover"
    /\ \E targetExists \in BOOLEAN, n \in 0..MaxFiles :
          IF ~targetExists
          THEN /\ n = 0
               /\ pc' = "done" /\ exitCode' = 1 /\ nFiles' = 0
          ELSE /\ nFiles' = n
               /\ pc' = IF n = 0 THEN "done" ELSE "loop"
               /\ exitCode' = 0
    /\ UNCHANGED <<args, configFile, options, config, i, file, outcome,
                   results, totalErrors, totalWarnings, cl, pf, css,
                   later>>

\* lines 74-114, one iteration; an exception out of parseFile leaves the
\* loop and reaches the catch of line 208, which calls process.exit(1)
CheckFile ==
    /\ pc = "loop"
    /\ i <= nFiles
    /\ \E f \in RunFiles :
          LET parsed == parseFile(f)
          IN  /\ file' = f
              /\ outcome' = parsed
              /\ IF parsed.kind # "returned"
                 THEN /\ pc' = "done"
                      /\ exitCode' = 1
                      /\ UNCHANGED <<i, results, totalErrors, totalWarnings>>
                 ELSE LET ruled == applyConfigRules(parsed.results, config)
                          feats == applyTargetBaseline(ruled,
                                     config.targets.baseline)
                          errors == CountSeq(LAMBDA r : r.severity = "error",
                                             feats)
                          warnings == CountSeq(LAMBDA r : r.severity = "warn",
                                               feats)
                      IN  /\ totalErrors' = totalErrors + errors
                          /\ totalWarnings' = totalWarnings + warnings
                          /\ results' = Append(results,
                                [features |-> feats, errors |-> errors,
                                 warnings |-> warnings,
                                 passed |-> Passed(errors, warnings,
                                                   options.strict)])
                          /\ i' = i + 1
                          /\ UNCHANGED <<pc, exitCode>>
    /\ UNCHANGED <<args, configFile, options, config, nFiles, cl, pf, css,
                   later>>

\* lines 116-206: the summary, the report, the exit code
Summarize ==
    /\ pc = "loop"
    /\ i > nFiles
    /\ exitCode' = ExitCodeOf(totalErrors, totalWarnings, options.strict)
    /\ pc' = "done"
    /\ UNCHANGED <<args, configFile, options, config, nFiles, i, file,
                   outcome, results, totalErrors, totalWarnings, cl, pf, css,
                   later>>

Next == LoadOptionsAndConfig \/ DiscoverFiles \/ CheckFile \/ Summarize

Spec == RunInit /\ [][Next]_vars

(***************************************************************************)
(* The classifier on one file's features, stage by stage: what             *)
(* checkCommand.execute does between parseFile and the result record       *)
(* (parsers.ts line 65, check.ts lines 85-90).                             *)
(***************************************************************************)
RunIdle ==
    /\ pc = "off"
    /\ args = [strict |-> FALSE]
    /\ configFile = Null
    /\ options = Null
    /\ config = Null
    /\ nFiles = 0
    /\ i = 1
    /\ file = NoFile
    /\ outcome = NoOutcome
    /\ results = <<>>
    /\ totalErrors = 0
    /\ totalWarnings = 0
    /\ exitCode = 0

ClassifyConfigs ==
    {c \in ConfigsOver(FeatureNames) : c.strict = FALSE}

ClassifyInit ==
    /\ RunIdle
    /\ pf = Idle
    /\ css = Idle
    /\ LaterIdle("none")
    /\ \E d \in SeqsUpTo(DetectedFeatures, MaxFeatures),
          c \in ClassifyConfigs :
          cl = [stage |-> "detected", detected |-> d, config |-> c,
                converted |-> <<>>, ruled |-> <<>>, final |-> <<>>,
                errors |-> 0, warnings |-> 0]

ClConvert ==
    /\ cl.stage = "detected"
    /\ cl' = [cl EXCEPT !.stage = "converted",
                        !.converted = MapSeq(convertToFeatureResult,
                                             cl.detected)]
    /\ UNCHANGED <<runVars, pf, css, later>>

ClApplyConfigRules ==
    /\ cl.stage = "converted"
    /\ cl' = [cl EXCEPT !.stage = "ruled",
                        !.ruled = applyConfigRules(cl.converted, cl.config)]
    /\ UNCHANGED <<runVars, pf, css, later>>

ClApplyTargetBaseline ==
    /\ cl.stage = "ruled"
    /\ cl' = [cl EXCEPT !.stage = "targeted",
                        !.final = applyTargetBaseline(cl.ruled,
                                     cl.config.targets.baseline)]
    /\ UNCHANGED <<runVars, pf, css, later>>

ClCount ==
    /\ cl.stage = "targeted"
    /\ cl' = [cl EXCEPT !.stage = "counted",
                 !.errors = CountSeq(LAMBDA r : r.severity = "error",
                                     cl.final),
                 !.warnings = CountSeq(LAMBDA r : r.severity = "warn",
                                       cl.final)]
    /\ UNCHANGED <<runVars, pf, css, later>>

ClassifyNext ==
    ClConvert \/ ClApplyConfigRules \/ ClApplyTargetBaseline \/ ClCount

SpecClassify == ClassifyInit /\ [][ClassifyNext]_vars

(***************************************************************************)
(* One call of parseFile (utils/parsers.ts).                               *)
(***************************************************************************)
ParseDetected == {At1("fetch"), [name |-> "has", line |-> 2, column |-> 3]}

ParseInit ==
    /\ RunIdle
    /\ cl = Idle
    /\ css = Idle
    /\ LaterIdle("none")
    /\ \E f \in FilesOver(ParseDetected) :
          pf = [stage |-> "called", file |-> f, outcome |-> NoOutcome]

ParseFileCall ==
    /\ pf.stage = "called"
    /\ pf' = [pf EXCEPT !.stage = "settled", !.outcome = parseFile(pf.file)]
    /\ UNCHANGED <<runVars, cl, css, later>>

ParseNext == ParseFileCall

SpecParse == ParseInit /\ [][ParseNext]_vars

(***************************************************************************)
(* The feature mapper's CSS tables and queries (web-features-mapper.ts).   *)
(* A text is known by the patterns it contains: `has` is the set of the    *)
(* markers (substrings, regular expressions) that match it.                *)
(***************************************************************************)
\* '_' -> '-' in one segment of a key
Dashed(segment) ==
    IF segment = "anchor_name" THEN "anchor-name" ELSE segment

\* compatFeature.startsWith('css.<kind>.')
StartsWithCss(compatFeature, kind) ==
    /\ Len(compatFeature) > 2
    /\ compatFeature[1] = "css"
    /\ compatFeature[2] = kind

\* compatFeature.replace('css.<kind>.', ''), each segment dashed
CssName(compatFeature) ==
    [k \in 1..(Len(compatFeature) - 2) |-> Dashed(compatFeature[k + 2])]

RECURSIVE SetCssKeys(_, _, _, _)
SetCssKeys(table, kind, keys, featureId) ==
    IF keys = <<>> THEN table
    ELSE SetCssKeys(
           IF StartsWithCss(Head(keys), kind)
           THEN MapSet(table, CssName(Head(keys)), featureId) ELSE table,
           kind, Tail(keys), featureId)

RECURSIVE BuildCssTable(_, _, _)
BuildCssTable(table, kind, entries) ==
    IF entries = <<>> THEN table
    ELSE BuildCssTable(
           SetCssKeys(table, kind, Head(entries).compat_features,
                      Head(entries).id),
           kind, Tail(entries))

\* buildEnhancedMappings: key, feature, pattern, in insertion order
enhancedMappings ==
    << [key |-> ":has(", compatFeature |-> "css-has", pattern |-> ":has("],
       [key |-> "::backdrop", compatFeature |-> "dialog",
        pattern |-> "::backdrop"],
       [key |-> "@container", compatFeature |-> "css-container-queries",
        pattern |-> "@container"],
       [key |-> "IntersectionObserver",
        compatFeature |-> "intersectionobserver",
        pattern |-> "new IntersectionObserver"],
       [key |-> "ResizeObserver", compatFeature |-> "resizeobserver",
        pattern |-> "new ResizeObserver"],
       [key |-> "fetch(", compatFeature |-> "fetch", pattern |-> "fetch("],
       [key |-> "<dialog", compatFeature |-> "dialog", pattern |-> "<dialog"],
       [key |-> "<details", compatFeature |-> "details",
        pattern |-> "<details"] >>

\* s.toLowerCase(), over the names of the model
Lower(s) ==
    IF s = "IntersectionObserver" THEN "intersectionobserver"
    ELSE IF s = "Fetch" THEN "fetch"
    ELSE IF s = "DIALOG" THEN "dialog"
    ELSE IF s = "Popover" THEN "popover"
    ELSE IF s = "structuredClone" THEN "structuredclone"
    ELSE s
LowerPath(path) == [k \in DOMAIN path |-> Lower(path[k])]

\* apiPath[0] === apiPath[0].toUpperCase()
IsCapitalized(s) == s \in {"IntersectionObserver", "Fetch", "DIALOG", "Popover"}

\* buildJSMappings, one compat key: a top-level name goes to the
\* constructors when capitalized and to the APIs otherwise; a member is
\* stored lower-cased, under object.member and under member
SetJsKey(tables, compatFeature, featureId) ==
    IF Len(compatFeature) < 2 \/ compatFeature[1] # "api" THEN tables
    ELSE LET apiPath == Tail(compatFeature)
         IN  IF Len(apiPath) = 1
             THEN IF IsCapitalized(apiPath[1])
                  THEN [tables EXCEPT !.jsConstructors =
                                         MapSet(@, apiPath, featureId)]
                  ELSE [tables EXCEPT !.jsAPIs = MapSet(@, apiPath, featureId)]
             ELSE LET memberName == LowerPath(Tail(apiPath))
                      fullPath == <<Lower(apiPath[1])>> \o memberName
                  IN  [tables EXCEPT !.jsAPIs =
                          MapSet(MapSet(@, fullPath, featureId),
                                 memberName, featureId)]

RECURSIVE SetJsKeys(_, _, _)
SetJsKeys(tables, keys, featureId) ==
    IF keys = <<>> THEN tables
    ELSE SetJsKeys(SetJsKey(tables, Head(keys), featureId), Tail(keys),
                   featureId)

RECURSIVE BuildJsTables(_, _)
BuildJsTables(tables, entries) ==
    IF entries = <<>> THEN tables
    ELSE BuildJsTables(
           SetJsKeys(tables, Head(entries).compat_features, Head(entries).id),
           Tail(entries))

\* the positions of '.attributes.' in a key
AttributesAt(compatFeature) ==
    {k \in DOMAIN compatFeature :
        compatFeature[k] = "attributes" /\ 1 < k /\ k < Len(compatFeature)}

\* buildHTMLMappings, one compat key
SetHtmlKey(tables, compatFeature, featureId) ==
    LET n == Len(compatFeature)
        elements ==
            IF n > 2 /\ compatFeature[1] = "html"
                     /\ compatFeature[2] = "elements"
            THEN [tables EXCEPT !.htmlElements =
                     MapSet(@, SubSeq(compatFeature, 3, n), featureId)]
            ELSE tables
        global ==
            IF n > 2 /\ compatFeature[1] = "html"
                     /\ compatFeature[2] = "global_attributes"
            THEN [elements EXCEPT !.htmlAttributes =
                     MapSet(@, SubSeq(compatFeature, 3, n), featureId)]
            ELSE elements
        at == AttributesAt(compatFeature)
    IN  IF Cardinality(at) = 1
        THEN [global EXCEPT !.htmlAttributes =
                 MapSet(@, SubSeq(compatFeature, 1 + CHOOSE k \in at : TRUE, n),
                        featureId)]
        ELSE global

RECURSIVE SetHtmlKeys(_, _, _)
SetHtmlKeys(tables, keys, featureId) ==
    IF keys = <<>> THEN tables
    ELSE SetHtmlKeys(SetHtmlKey(tables, Head(keys), featureId), Tail(keys),
                     featureId)

RECURSIVE BuildHtmlTables(_, _)
BuildHtmlTables(tables, entries) ==
    IF entries = <<>> THEN tables
    ELSE BuildHtmlTables(
           SetHtmlKeys(tables, Head(entries).compat_features,
                       Head(entries).id),
           Tail(entries))

JsTables ==
    BuildJsTables([jsAPIs |-> EmptyMap, jsConstructors |-> EmptyMap], features)
HtmlTables ==
    BuildHtmlTables([htmlElements |-> EmptyMap, htmlAttributes |-> EmptyMap],
                    features)

\* the mapper once initialize() has run
InitializedMapper ==
    [initialized |-> TRUE,
     cssProperties |-> BuildCssTable(EmptyMap, "properties", features),
     cssSelectors |-> BuildCssTable(EmptyMap, "selectors", features),
     cssAtRules |-> BuildCssTable(EmptyMap, "at-rules", features),
     jsAPIs |-> JsTables.jsAPIs,
     jsConstructors |-> JsTables.jsConstructors,
     htmlElements |-> HtmlTables.htmlElements,
     htmlAttributes |-> HtmlTables.htmlAttributes,
     enhancedMappings |-> enhancedMappings]

\* the vendor prefixes of /^-(?:webkit|moz|ms|o)-/, and the unprefixed
\* property names of the model
VendorPrefixes == {"-webkit-", "-moz-", "-ms-", "-o-"}
PropertyNames == {"backdrop-filter", "line-clamp", "grid", "color"}

Unprefixed_WebkitOnly(property) ==
    IF property = "-webkit-backdrop-filter" THEN "backdrop-filter"
    ELSE property

\* property.replace(/^-(?:webkit|moz|ms|o)-/, '')
Unprefixed(property) ==
    LET stripped == {p \in PropertyNames :
                       \E v \in VendorPrefixes : property = v \o p}
    IN  IF stripped = {} THEN property ELSE CHOOSE p \in stripped : TRUE

\* table.get(k) || null, the tables holding feature ids
NullId == "null"
MapGet(table, k) == IF k \in DOMAIN table THEN table[k] ELSE NullId

mapCSSProperty(mapper, property) ==
    IF ~mapper.initialized THEN NullId
    ELSE LET directMatch == MapGet(mapper.cssProperties, Key(property))
         IN  IF directMatch # NullId THEN directMatch
             ELSE MapGet(mapper.cssProperties, Key(Unprefixed(property)))

\* enhancedMappings.get(key): the entries stored under a key
EnhancedGet(mapper, key) ==
    FilterSeq(LAMBDA m : m.key = key, mapper.enhancedMappings)

\* `@${atRule}` and `<${element}`, over the names of the model
AtKey(atRule) ==
    IF atRule = "container" THEN "@container" ELSE "@other"
AngleKey(element) ==
    IF element = "dialog" THEN "<dialog"
    ELSE IF element = "details" THEN "<details" ELSE "<other"

mapCSSAtRule(mapper, atRule) ==
    IF ~mapper.initialized THEN NullId
    ELSE LET enhanced == EnhancedGet(mapper, AtKey(atRule))
         IN  IF Len(enhanced) > 0 THEN enhanced[1].compatFeature
             ELSE MapGet(mapper.cssAtRules, Key(atRule))

\* findEnhancedJSMapping: the first entry, in insertion order, whose
\* pattern matches the code
findEnhancedJSMapping(mapper, jsCode) ==
    LET hits == FilterSeq(LAMBDA m : m.pattern \in jsCode.has,
                          mapper.enhancedMappings)
    IN  IF hits = <<>> THEN NullId ELSE hits[1].compatFeature

\* A piece of JavaScript: its text as a dotted path, the callee that
\* /(\w+(?:\.\w+)*)\s*\(/ finds (<<>>: none), the name that /new\s+(\w+)/
\* finds (NullId: none), the enhanced patterns that match it.
mapJSProperty(mapper, propertyAccess) ==
    IF ~mapper.initialized THEN NullId
    ELSE LET directMatch ==
                 MapGet(mapper.jsAPIs, LowerPath(propertyAccess.path))
         IN  IF directMatch # NullId THEN directMatch
             ELSE findEnhancedJSMapping(mapper, propertyAccess)

mapJSMethod(mapper, methodCall) ==
    IF ~mapper.initialized THEN NullId
    ELSE LET directMatch ==
                 IF methodCall.callee = <<>> THEN NullId
                 ELSE MapGet(mapper.jsAPIs, LowerPath(methodCall.callee))
         IN  IF directMatch # NullId THEN directMatch
             ELSE findEnhancedJSMapping(mapper, methodCall)

mapJSConstructor(mapper, constructor) ==
    IF ~mapper.initialized THEN NullId
    ELSE LET directMatch ==
                 IF constructor.constructorName = NullId THEN NullId
                 ELSE MapGet(mapper.jsConstructors, Key(constructor.constructorName))
         IN  IF directMatch # NullId THEN directMatch
             ELSE findEnhancedJSMapping(mapper, constructor)

mapHTMLElement(mapper, element) ==
    IF ~mapper.initialized THEN NullId
    ELSE LET directMatch == MapGet(mapper.htmlElements, Key(Lower(element)))
             enhanced == EnhancedGet(mapper, AngleKey(Lower(element)))
         IN  IF directMatch # NullId THEN directMatch
             ELSE IF Len(enhanced) > 0 THEN enhanced[1].compatFeature
             ELSE NullId

mapHTMLAttribute_NoGuard(mapper, attribute) ==
    MapGet(mapper.htmlAttributes, Key(Lower(attribute)))

mapHTMLAttribute(mapper, attribute) ==
    IF ~mapper.initialized THEN NullId
    ELSE MapGet(mapper.htmlAttributes, Key(Lower(attribute)))

\* detectFeaturesInContext: for every enhanced entry in insertion order,
\* one feature per match of its pattern in the content (content.matches:
\* pattern, line, column of each match, in text order)
detectFeaturesInContext(mapper, content) ==
    IF ~mapper.initialized THEN <<>>
    ELSE FlatMap(LAMBDA m :
                    MapSeq(LAMBDA x : [name |-> m.compatFeature,
                                       line |-> x.line, column |-> x.column],
                           FilterSeq(LAMBDA x : x.pattern = m.pattern,
                                     content.matches)),
                 mapper.enhancedMappings)

\* [...new Set(features)]: the first occurrence of each element stays
RECURSIVE Dedupe(_)
Dedupe(s) ==
    IF s = <<>> THEN <<>>
    ELSE LET init == Dedupe(SubSeq(s, 1, Len(s) - 1))
             last == s[Len(s)]
         IN  IF \E k \in DOMAIN init : init[k] = last THEN init
             ELSE Append(init, last)

mapCSSSelector(mapper, selector) ==
    IF ~mapper.initialized THEN <<>>
    ELSE LET hits == FilterSeq(LAMBDA m : m.pattern \in selector.has,
                               mapper.enhancedMappings)
             enhanced == MapSeq(LAMBDA m : m.compatFeature, hits)
             directMatch == MapGet(mapper.cssSelectors, Key(selector.str))
         IN  Dedupe(IF directMatch # NullId THEN Append(enhanced, directMatch)
                    ELSE enhanced)

(***************************************************************************)
(* The CSS walker (language-server.ts).                                    *)
(***************************************************************************)
\* property.startsWith(prefix), over the property names of the model
PrefixesOf(property) ==
    IF property = "anchor-name" THEN {"anchor-"}
    ELSE IF property = "view-transition-name" THEN {"view-transition"}
    ELSE IF property = "scroll-snap-type" THEN {"scroll-snap-"}
    ELSE IF property = "text-decoration-color" THEN {"text-decoration-"}
    ELSE {}
StartsWith(property, prefix) == prefix \in PrefixesOf(property)

Sel(cond, name) == IF cond THEN <<name>> ELSE <<>>

checkCSSPropertyValue(property, value) ==
    LET inc(m) == m \in value.has
    IN  (IF property = "display"
         THEN Sel(inc("grid"), "css-grid") \o Sel(inc("flex"), "flexbox")
              \o Sel(inc("contents"), "display-contents")
              \o Sel(inc("subgrid"), "css-subgrid")
         ELSE <<>>)
        \o Sel(inc("clamp("), "css-math-functions")
        \o Sel(inc("min(") \/ inc("max("), "css-math-functions")
        \o Sel(inc("var("), "custom-properties")
        \o Sel(inc("calc("), "calc")
        \o Sel(inc("rgb(/)"), "css-color-4")
        \o Sel(inc("hsl(/)"), "css-color-4")
        \o Sel(inc("hwb("), "css-color-4")
        \o Sel(inc("lch(") \/ inc("lab("), "css-color-4")
        \o Sel(inc("color("), "css-color-5")
        \o Sel(inc("linear-gradient"), "css-gradients")
        \o Sel(inc("radial-gradient"), "css-gradients")
        \o Sel(inc("conic-gradient"), "css-conic-gradients")
        \o Sel(inc("blur(") \/ inc("brightness(") \/ inc("contrast("),
               "css-filters")
        \o Sel(property \in {"backdrop-filter", "-webkit-backdrop-filter"},
               "backdrop-filter")
        \o Sel(property = "aspect-ratio", "aspect-ratio")
        \o Sel(inc("cq-unit"), "css-container-queries")
        \o Sel(StartsWith(property, "view-transition"), "view-transitions")
        \o Sel(StartsWith(property, "anchor-")
                 \/ property = "position-anchor", "css-anchor-positioning")
        \o Sel(property \in {"animation-timeline", "scroll-timeline"},
               "scroll-driven-animations")

Emit(names, node) ==
    MapSeq(LAMBDA n : [name |-> n, line |-> node.line,
                       column |-> node.column], names)

\* handleCSSRule: every `property: value` the pattern finds in the node's
\* text, each reported at the node's own position
handleCSSRule(mapper, node) ==
    FlatMap(LAMBDA pair :
              LET compatFeature == mapCSSProperty(mapper, pair.property)
              IN  Emit(Sel(compatFeature # NullId, compatFeature)
                       \o checkCSSPropertyValue(pair.property, pair.value),
                       node),
            node.text.pairs)

handleCSSProperty(mapper, node) ==
    LET propertyName == node.text.str
        compatFeature == mapCSSProperty(mapper, propertyName)
    IN  Emit(Sel(compatFeature # NullId, compatFeature)
             \o Sel("logical" \in node.text.has, "css-logical-properties")
             \o Sel(propertyName \in {"container-type", "container-name",
                                      "container"}, "css-container-queries")
             \o Sel(StartsWith(propertyName, "scroll-snap-")
                      \/ propertyName = "scroll-behavior"
                      \/ StartsWith(propertyName, "scroll-margin")
                      \/ StartsWith(propertyName, "scroll-padding"),
                    "css-scroll-snap")
             \o Sel(propertyName \in {"overscroll-behavior",
                       "overscroll-behavior-x", "overscroll-behavior-y"},
                    "css-overscroll-behavior")
             \o Sel(StartsWith(propertyName, "text-decoration-"),
                    "css-text-decoration")
             \o Sel(propertyName \in {"gap", "row-gap", "column-gap"},
                    "css-gap"),
             node)

advancedSelectors ==
    << [pattern |-> ":has(", name |-> "css-has"],
       [pattern |-> ":is(", name |-> "css-is"],
       [pattern |-> ":where(", name |-> "css-where"],
       [pattern |-> ":not(", name |-> "css-not"],
       [pattern |-> "::backdrop", name |-> "dialog"],
       [pattern |-> "::placeholder", name |-> "css-placeholder"],
       [pattern |-> "::marker", name |-> "css-marker"],
       [pattern |-> "::selection", name |-> "css-selection"],
       [pattern |-> "::part(", name |-> "css-shadow-parts"],
       [pattern |-> "::slotted(", name |-> "css-slotted"],
       [pattern |-> ":focus-visible", name |-> "css-focus-visible"],
       [pattern |-> ":focus-within", name |-> "css-focus-within"],
       [pattern |-> ":target", name |-> "css-target"],
       [pattern |-> ":nth-child(of", name |-> "css-nth-child-of"] >>

handleCSSSelector(mapper, node) ==
    Emit(mapCSSSelector(mapper, node.text)
         \o MapSeq(LAMBDA a : a.name,
                   FilterSeq(LAMBDA a : a.pattern \in node.text.has,
                             advancedSelectors)),
         node)

\* the fixed table of handleCSSAtRule
atRuleFeatures ==
    ("container" :> "css-container-queries")
    @@ ("layer" :> "css-cascade-layers")
    @@ ("scope" :> "css-scope")
    @@ ("starting-style" :> "css-starting-style")
    @@ ("property" :> "css-properties-values-api")
    @@ ("keyframes" :> "css-animations")
    @@ ("media" :> "css-media-queries")
    @@ ("supports" :> "css-supports")
    @@ ("import" :> "css-import")
    @@ ("font-face" :> "css-font-face")
    @@ ("counter-style" :> "css-counter-styles")

mediaFeatures ==
    << [pattern |-> "prefers-color-scheme", name |-> "prefers-color-scheme"],
       [pattern |-> "prefers-reduced-motion",
        name |-> "prefers-reduced-motion"],
       [pattern |-> "prefers-contrast", name |-> "prefers-contrast"],
       [pattern |-> "prefers-reduced-data", name |-> "prefers-reduced-data"],
       [pattern |-> "prefers-reduced-transparency",
        name |-> "prefers-reduced-transparency"],
       [pattern |-> "forced-colors", name |-> "forced-colors"],
       [pattern |-> "hover: hover", name |-> "hover-media-query"],
       [pattern |-> "pointer: fine", name |-> "pointer-media-query"],
       [pattern |-> "any-hover", name |-> "any-hover"],
       [pattern |-> "any-pointer", name |-> "any-pointer"] >>

\* handleCSSAtRule: the name after the first @ of the node's text; the
\* mapper's feature, the table's feature and, for @media, the media
\* features found in the text, all at the node's position
handleCSSAtRule(mapper, node) ==
    LET atRuleName == node.text.str
        compatFeature == mapCSSAtRule(mapper, atRuleName)
    IN  Emit(Sel(compatFeature # NullId, compatFeature)
             \o (IF atRuleName \in DOMAIN atRuleFeatures
                 THEN <<atRuleFeatures[atRuleName]>> ELSE <<>>)
             \o (IF atRuleName = "media"
                 THEN MapSeq(LAMBDA f : f.name,
                             FilterSeq(LAMBDA f : f.pattern \in node.text.has,
                                       mediaFeatures))
                 ELSE <<>>),
             node)

\* the switch of traverse
HandleNode(mapper, node) ==
    IF node.type \in {"Ruleset", "Declaration"}
    THEN handleCSSRule(mapper, node)
    ELSE IF node.type \in {"Keyframe", "Media", "Container", "Supports",
                           "Layer"}
    THEN handleCSSAtRule(mapper, node)
    ELSE IF node.type = "Property" THEN handleCSSProperty(mapper, node)
    ELSE IF node.type \in {"Selector", "SimpleSelector", "PseudoSelector"}
    THEN handleCSSSelector(mapper, node)
    ELSE <<>>

(***************************************************************************)
(* Stylesheets and their trees.  A stylesheet of the model is one ruleset: *)
(* a selector and up to MaxDecls declarations, written on one line or one  *)
(* declaration per line.  The tree is the one vscode-css-languageservice   *)
(* builds: every node spans the text of its descendants.                   *)
(***************************************************************************)
MaxDecls == 2

Text(str, has, pairs) == [str |-> str, has |-> has, pairs |-> pairs]

CssSelectors ==
    { [str |-> "a", has |-> {}, pseudo |-> FALSE],
      [str |-> "a:has(b)", has |-> {":has("}, pseudo |-> TRUE] }

CssDecls ==
    { [property |-> "display", value |-> [str |-> "grid", has |-> {"grid"}]],
      [property |-> "backdrop-filter",
       value |-> [str |-> "blur(4px)", has |-> {"blur("}]],
      [property |-> "color", value |-> [str |-> "red", has |-> {}]] }

CssSources ==
    [selector : CssSelectors, layout : {"lines", "inline"},
     decls : SeqsUpTo(CssDecls, MaxDecls)]

\* what /([-\w]+)\s*:\s*([^;]+)/g finds in the text of a ruleset: the
\* declarations, except that a selector with a pseudo-class is itself
\* "word : rest up to the first semicolon", a pair that takes the first
\* declaration as part of its value
RulesetPairs(src) ==
    IF src.selector.pseudo
    THEN << [property |-> "a",
             value |-> [str |-> "has(b) {",
                        has |-> IF src.decls = <<>> THEN {}
                                ELSE src.decls[1].value.has]] >>
         \o (IF src.decls = <<>> THEN <<>> ELSE Tail(src.decls))
    ELSE src.decls

Node(type, line, column, text, children) ==
    [type |-> type, line |-> line, column |-> column, text |-> text,
     children |-> children]

DeclLine(src, k) == IF src.layout = "lines" THEN 1 + k ELSE 1
DeclColumn(src, k) == IF src.layout = "lines" THEN 3 ELSE 10 * k

SelectorTree(sel, column) ==
    LET simple(inner) ==
            Node("SimpleSelector", 1, column, Text(sel.str, sel.has, <<>>),
                 <<Node("ElementNameSelector", 1, column,
                        Text("a", {}, <<>>), <<>>)>> \o inner)
        innerSelector ==
            Node("Selector", 1, column + 6, Text("b", {}, <<>>),
                 <<Node("SimpleSelector", 1, column + 6, Text("b", {}, <<>>),
                        <<Node("ElementNameSelector", 1, column + 6,
                               Text("b", {}, <<>>), <<>>)>>)>>)
        pseudo ==
            Node("PseudoSelector", 1, column + 1,
                 Text(":has(b)", sel.has, <<>>), <<innerSelector>>)
    IN  Node("Selector", 1, column, Text(sel.str, sel.has, <<>>),
             <<simple(IF sel.pseudo THEN <<pseudo>> ELSE <<>>)>>)

DeclarationTree(src, k) ==
    LET d == src.decls[k]
    IN  Node("Declaration", DeclLine(src, k), DeclColumn(src, k),
             Text("", {}, <<d>>),
             << Node("Property", DeclLine(src, k), DeclColumn(src, k),
                     Text(d.property, {}, <<>>), <<>>),
                Node("Expression", DeclLine(src, k), DeclColumn(src, k) + 1,
                     Text(d.value.str, d.value.has, <<>>), <<>>) >>)

\* Stylesheets of one at-rule.  The node kind the parser gives the
\* at-rule is one of the kinds of CSSNodeType; where the enum has no kind
\* of its own for the at-rule, or the parser may predate it, the node is
\* an UnknownAtRule.
AtRuleNames ==
    {"container", "layer", "scope", "starting-style", "property",
     "keyframes", "media", "supports", "import", "font-face",
     "counter-style", "charset"}
AtRuleKinds(name) ==
    CASE name = "keyframes" -> {"Keyframe"}
      [] name = "media" -> {"Media"}
      [] name = "supports" -> {"Supports"}
      [] name = "container" -> {"Container"}
      [] name = "layer" -> {"Layer"}
      [] name = "font-face" -> {"FontFace"}
      [] name = "import" -> {"Import"}
      [] name = "property" -> {"PropertyAtRule", "UnknownAtRule"}
      [] name = "scope" -> {"Scope", "UnknownAtRule"}
      [] OTHER -> {"UnknownAtRule"}
MediaTexts == {{}, {"prefers-color-scheme"}, {"hover: hover", "any-hover"}}
AtRuleSources ==
    UNION {[atRule : {n}, kind : AtRuleKinds(n), line : {1, 2},
            has : IF n = "media" THEN MediaTexts ELSE {{}}] :
           n \in AtRuleNames}

\* the tree of `@name ... { a { color: red } }` starting on the line of
\* the source, the nested ruleset on the next line
AtRuleTree(src) ==
    LET declaration ==
            Node("Declaration", src.line + 1, 7,
                 Text("", {}, <<[property |-> "color",
                                 value |-> [str |-> "red", has |-> {}]]>>),
                 << Node("Property", src.line + 1, 7,
                         Text("color", {}, <<>>), <<>>) >>)
        ruleset ==
            Node("Ruleset", src.line + 1, 3,
                 Text("", {}, <<[property |-> "color",
                                 value |-> [str |-> "red", has |-> {}]]>>),
                 << Node("Declarations", src.line + 1, 5, Text("", {}, <<>>),
                         <<declaration>>) >>)
        body ==
            IF src.atRule \in {"import", "charset"} THEN <<>>
            ELSE << Node("Declarations", src.line, 10, Text("", {}, <<>>),
                         <<ruleset>>) >>
    IN  Node("Stylesheet", 1, 1, Text("", src.has, <<>>),
             << Node(src.kind, src.line, 1,
                     Text(src.atRule, src.has, <<>>),
                     body) >>)

\* cssLanguageService.parseStylesheet
ParseStylesheet(src) ==
    LET declarations ==
            Node("Declarations", 1, 5, Text("", {}, src.decls),
                 [k \in 1..Len(src.decls) |-> DeclarationTree(src, k)])
        ruleset ==
            Node("Ruleset", 1, 1,
                 Text("", src.selector.has, RulesetPairs(src)),
                 <<SelectorTree(src.selector, 1), declarations>>)
    IN  IF "atRule" \in DOMAIN src THEN AtRuleTree(src)
        ELSE Node("Stylesheet", 1, 1,
                  Text("", src.selector.has, RulesetPairs(src)), <<ruleset>>)

CssInit ==
    /\ RunIdle
    /\ cl = Idle
    /\ pf = Idle
    /\ LaterIdle("none")
    /\ \E src \in CssSources :
          css = [stage |-> "source", source |-> src, pending |-> <<>>,
                 features |-> <<>>]

\* parseCSS lines 66-69: the document is parsed and traverse(root) starts
CssParse ==
    /\ css.stage = "source"
    /\ css' = [css EXCEPT !.stage = "walking",
                          !.pending = <<ParseStylesheet(css.source)>>]
    /\ UNCHANGED <<runVars, cl, pf, later>>

\* traverse(node): the node's handler, then its children in order
CssTraverse ==
    /\ css.stage = "walking"
    /\ css.pending # <<>>
    /\ LET node == Head(css.pending)
       IN  css' = [css EXCEPT
                     !.features = @ \o HandleNode(InitializedMapper, node),
                     !.pending = node.children \o Tail(css.pending)]
    /\ UNCHANGED <<runVars, cl, pf, later>>

CssReturn ==
    /\ css.stage = "walking"
    /\ css.pending = <<>>
    /\ css' = [css EXCEPT !.stage = "done"]
    /\ UNCHANGED <<runVars, cl, pf, later>>

CssNext == CssParse \/ CssTraverse \/ CssReturn

SpecCss == CssInit /\ [][CssNext]_vars

\* the same walk on the stylesheets of one at-rule
AtRuleInit ==
    /\ RunIdle
    /\ cl = Idle
    /\ pf = Idle
    /\ LaterIdle("none")
    /\ \E src \in AtRuleSources :
          css = [stage |-> "source", source |-> src, pending |-> <<>>,
                 features |-> <<>>]

SpecAtRule == AtRuleInit /\ [][CssNext]_vars

(***************************************************************************)
(* The fix command (commands/fix.ts) up to its request to the AI service.  *)
(* A file is a sequence of lines; a line is blank or holds one ruleset     *)
(* written on that line.                                                   *)
(***************************************************************************)
MaxLines == 3

GridRule ==
    [selector |-> [str |-> "a", has |-> {}, pseudo |-> FALSE],
     layout |-> "inline",
     decls |-> <<[property |-> "display",
                  value |-> [str |-> "grid", has |-> {"grid"}]]>>]
ColorRule ==
    [selector |-> [str |-> "a", has |-> {}, pseudo |-> FALSE],
     layout |-> "inline",
     decls |-> <<[property |-> "color",
                  value |-> [str |-> "red", has |-> {}]]>>]
BlankLine == [kind |-> "blank"]
RuleLine(src) == [kind |-> "rule", src |-> src]
LineKinds == {BlankLine, RuleLine(GridRule), RuleLine(ColorRule)}

RECURSIVE ShiftLines(_, _)
ShiftLines(node, d) ==
    [node EXCEPT !.line = @ + d,
                 !.children = [j \in DOMAIN @ |-> ShiftLines(@[j], d)]]

\* cssLanguageService.parseStylesheet on a text of several lines: the
\* ruleset of line k of the text is positioned on line k of that text
ParseLines(content) ==
    LET rules == FilterSeq(LAMBDA k : content[k].kind = "rule",
                           [k \in 1..Len(content) |-> k])
    IN  Node("Stylesheet", 1, 1, Text("", {}, <<>>),
             [j \in DOMAIN rules |->
                ShiftLines(ParseStylesheet(content[rules[j]].src).children[1],
                           rules[j] - 1)])

\* extractCSSFeatures: traverse(cssDocument), the features in push order
RECURSIVE Walk(_, _)
Walk(mapper, node) ==
    HandleNode(mapper, node)
    \o FlatMap(LAMBDA c : Walk(mapper, c), node.children)

\* LanguageServerParser.parseCSS on a text that parses
LanguageServerParseCSS(content) ==
    [features |-> Walk(InitializedMapper, ParseLines(content)),
     errors |-> <<>>]

FixOptions ==
    {[file |-> "styles.css"]}
    \cup {[file |-> "styles.css", lineRange |-> <<s, e>>] :
            s \in 0..(MaxLines + 1), e \in 0..(MaxLines + 1)}

FixInit ==
    /\ RunIdle
    /\ cl = Idle
    /\ pf = Idle
    /\ css = Idle
    /\ LaterIdle("fx")
    /\ \E lines \in SeqsUpTo(LineKinds, MaxLines) \ {<<>>},
          opts \in FixOptions :
          fx = [stage |-> "start", lines |-> lines, options |-> opts,
                contentToAnalyze |-> <<>>, lineOffset |-> 0,
                features |-> <<>>, issues |-> <<>>, request |-> <<>>,
                fixedCSS |-> <<>>, fixedContent |-> <<>>,
                written |-> <<>>, backup |-> <<>>, exitCode |-> 0]

\* lines 79-96: the content to analyse and its offset in the file
FixSlice ==
    /\ fx.stage = "start"
    /\ IF "lineRange" \in DOMAIN fx.options
       THEN LET start == fx.options.lineRange[1]
                end == fx.options.lineRange[2]
            IN  IF start < 1 \/ end > Len(fx.lines) \/ start > end
                THEN fx' = [fx EXCEPT !.stage = "exit", !.exitCode = 1]
                ELSE fx' = [fx EXCEPT
                              !.stage = "sliced",
                              !.contentToAnalyze = SubSeq(fx.lines, start, end),
                              !.lineOffset = start - 1]
       ELSE fx' = [fx EXCEPT !.stage = "sliced",
                             !.contentToAnalyze = fx.lines,
                             !.lineOffset = 0]
    /\ UNCHANGED <<runVars, cl, pf, css>>
    /\ LaterFrame("fx")

\* lines 98-104: parser.parseCSS(contentToAnalyze, filePath)
FixParse ==
    /\ fx.stage = "sliced"
    /\ LET parseResult == LanguageServerParseCSS(fx.contentToAnalyze)
       IN  fx' = [fx EXCEPT
                    !.features = parseResult.features,
                    !.stage = IF Len(parseResult.features) = 0
                              THEN "done" ELSE "parsed"]
    /\ UNCHANGED <<runVars, cl, pf, css>>
    /\ LaterFrame("fx")

\* lines 106-110: issues, numbered in the file
FixIssues ==
    /\ fx.stage = "parsed"
    /\ fx' = [fx EXCEPT
                !.issues = MapSeq(LAMBDA f : [line |-> f.line + fx.lineOffset,
                                              feature |-> f.name],
                                  fx.features),
                !.stage = "issues"]
    /\ UNCHANGED <<runVars, cl, pf, css>>
    /\ LaterFrame("fx")

\* lines 127-130: aiService.fixCSS on the analysed content, the issues
\* numbered in that content
FixRequest ==
    /\ fx.stage = "issues"
    /\ fx' = [fx EXCEPT
                !.request = MapSeq(LAMBDA x : [x EXCEPT
                                                 !.line = @ - fx.lineOffset],
                                   fx.issues),
                !.stage = "requested"]
    /\ UNCHANGED <<runVars, cl, pf, css>>
    /\ LaterFrame("fx")

\* text.split('\n') of lines.join('\n'): the empty text is one empty line
SplitJoin(textLines) == IF textLines = <<>> THEN <<BlankLine>> ELSE textLines

\* what the AI service may return for the analysed content: the content
\* itself, the content with its grid rules rewritten, or one line more
FixedCssOf(contentToAnalyze) ==
    {contentToAnalyze,
     [k \in DOMAIN contentToAnalyze |->
         IF contentToAnalyze[k] = RuleLine(GridRule)
         THEN RuleLine(ColorRule) ELSE contentToAnalyze[k]],
     contentToAnalyze \o <<RuleLine(ColorRule)>>}

\* lines 132-140: the response of fixCSS and the content to write;
\* before + '\n' + fixedCSS + '\n' + after, as the lines of that text
FixRespond ==
    /\ fx.stage = "requested"
    /\ \E fixedCSS \in FixedCssOf(fx.contentToAnalyze) :
          fx' = [fx EXCEPT
                   !.stage = "responded",
                   !.fixedCSS = fixedCSS,
                   !.fixedContent =
                       IF "lineRange" \in DOMAIN fx.options
                       THEN LET start == fx.options.lineRange[1]
                                end == fx.options.lineRange[2]
                                before == SubSeq(fx.lines, 1, start - 1)
                                after == SubSeq(fx.lines, end + 1,
                                                Len(fx.lines))
                            IN  SplitJoin(before) \o SplitJoin(fixedCSS)
                                \o SplitJoin(after)
                       ELSE SplitJoin(fixedCSS)]
    /\ UNCHANGED <<runVars, cl, pf, css>>
    /\ LaterFrame("fx")

\* lines 142-152: the user approves; backup and file are written
FixApply ==
    /\ fx.stage = "responded"
    /\ fx' = [fx EXCEPT !.stage = "applied",
                        !.backup = fx.lines,
                        !.written = fx.fixedContent]
    /\ UNCHANGED <<runVars, cl, pf, css>>
    /\ LaterFrame("fx")

\* lines 153-156: the user declines; nothing is written
FixDecline ==
    /\ fx.stage = "responded"
    /\ fx' = [fx EXCEPT !.stage = "declined"]
    /\ UNCHANGED <<runVars, cl, pf, css>>
    /\ LaterFrame("fx")

FixNext ==
    \/ FixSlice
    \/ FixParse
    \/ FixIssues
    \/ FixRequest
    \/ FixRespond
    \/ FixApply
    \/ FixDecline

SpecFix == FixInit /\ [][FixNext]_vars

(***************************************************************************)
(* One process making parse calls one after another (parsers.ts parseCSS   *)
(* through LanguageServerParser.parseCSS): what it keeps between calls is  *)
(* the cached parser, the parser's mapper reference and the mapper         *)
(* singleton.                                                              *)
(***************************************************************************)
MaxCalls == 3

\* new WebFeaturesMapper()
NewWebFeaturesMapper ==
    [initialized |-> FALSE, cssProperties |-> EmptyMap,
     cssSelectors |-> EmptyMap, cssAtRules |-> EmptyMap,
     jsAPIs |-> EmptyMap, jsConstructors |-> EmptyMap,
     htmlElements |-> EmptyMap, htmlAttributes |-> EmptyMap,
     enhancedMappings |-> <<>>]

\* mapper.initialize(), run to its end
initialize(mapper) == IF mapper.initialized THEN mapper ELSE InitializedMapper

\* await getWebFeaturesMapper() by a caller that is alone: the singleton
\* after the call
GetWebFeaturesMapperAlone(mapperInstance) ==
    IF mapperInstance = Null THEN initialize(NewWebFeaturesMapper)
    ELSE mapperInstance

HasRule ==
    [selector |-> [str |-> "a:has(b)", has |-> {":has("}, pseudo |-> TRUE],
     layout |-> "inline", decls |-> <<>>]
BackdropRule ==
    [selector |-> [str |-> "a", has |-> {}, pseudo |-> FALSE],
     layout |-> "inline",
     decls |-> <<[property |-> "backdrop-filter",
                  value |-> [str |-> "blur(4px)", has |-> {"blur("}]]>>]
RepeatContents ==
    { <<RuleLine(GridRule)>>, <<RuleLine(HasRule)>>,
      <<BlankLine, RuleLine(BackdropRule)>>,
      <<RuleLine(HasRule), RuleLine(GridRule)>> }

RepeatInit ==
    /\ RunIdle
    /\ cl = Idle
    /\ pf = Idle
    /\ css = Idle
    /\ LaterIdle("rp")
    /\ rp = [stage |-> "ready", languageServerParser |-> "null",
             webFeaturesMapper |-> "null", mapperInstance |-> Null,
             content |-> <<>>, features |-> <<>>, outputs |-> <<>>]

\* parsers.ts 62-63: the content is read and the cached parser fetched
\* (getLanguageServerParser creates it on the first call)
RpGetParser ==
    /\ rp.stage = "ready"
    /\ Len(rp.outputs) < MaxCalls
    /\ \E content \in RepeatContents :
          rp' = [rp EXCEPT !.stage = "called", !.content = content,
                           !.languageServerParser = "parser"]
    /\ UNCHANGED <<runVars, cl, pf, css>>
    /\ LaterFrame("rp")

RpBegin_KeepFeatures ==
    /\ rp.stage = "called"
    /\ rp' = [rp EXCEPT
                !.stage = "walking",
                !.mapperInstance =
                    IF rp.webFeaturesMapper = "null"
                    THEN GetWebFeaturesMapperAlone(@) ELSE @,
                !.webFeaturesMapper = "mapperInstance"]
    /\ UNCHANGED <<runVars, cl, pf, css>>
    /\ LaterFrame("rp")

\* language-server.ts 58-63: the call's own empty features array, then
\* ensureMapperInitialized
RpBegin ==
    /\ rp.stage = "called"
    /\ rp' = [rp EXCEPT
                !.stage = "walking",
                !.features = <<>>,
                !.mapperInstance =
                    IF rp.webFeaturesMapper = "null"
                    THEN GetWebFeaturesMapperAlone(@) ELSE @,
                !.webFeaturesMapper = "mapperInstance"]
    /\ UNCHANGED <<runVars, cl, pf, css>>
    /\ LaterFrame("rp")

\* language-server.ts 65-69: parseStylesheet and extractCSSFeatures
RpWalk ==
    /\ rp.stage = "walking"
    /\ rp' = [rp EXCEPT
                !.stage = "walked",
                !.features = @ \o Walk(rp.mapperInstance,
                                       ParseLines(rp.content))]
    /\ UNCHANGED <<runVars, cl, pf, css>>
    /\ LaterFrame("rp")

\* language-server.ts 78-86: the ParseResult is returned
RpReturn ==
    /\ rp.stage = "walked"
    /\ rp' = [rp EXCEPT
                !.stage = "ready",
                !.outputs = Append(@, [content |-> rp.content,
                                       features |-> rp.features])]
    /\ UNCHANGED <<runVars, cl, pf, css>>
    /\ LaterFrame("rp")

RepeatNext == RpGetParser \/ RpBegin \/ RpWalk \/ RpReturn

SpecRepeat == RepeatInit /\ [][RepeatNext]_vars

(***************************************************************************)
(* getWebFeaturesMapper under concurrent callers                           *)
(* (web-features-mapper.ts 370-379, initialize 38-58).  A step is the code *)
(* one caller runs between two awaits; the steps of the callers interleave *)
(* in any order, and a caller may arrive at any time.                      *)
(***************************************************************************)
MaxCallers == 3
Callers == 1..MaxCallers

\* mapperInstance is null
NoInstance == 0

\* a mapper object of the heap: its flag, and how often each build step
\* ran on it
FreshMapper ==
    [initialized |-> FALSE,
     builds |-> [css |-> 0, js |-> 0, html |-> 0, enhanced |-> 0]]

NotCalled == [pc |-> "idle", self |-> NoInstance, result |-> NoInstance,
              saw |-> FALSE]

FactoryInit ==
    /\ RunIdle
    /\ cl = Idle
    /\ pf = Idle
    /\ css = Idle
    /\ LaterIdle("fac")
    /\ fac = [mapperInstance |-> NoInstance, mappers |-> <<>>,
              callers |-> [c \in Callers |-> NotCalled]]

FacCall_AssignAfterInitialize(c) ==
    /\ fac.callers[c].pc = "idle"
    /\ IF fac.mapperInstance = NoInstance
       THEN LET id == Len(fac.mappers) + 1
            IN  fac' = [fac EXCEPT
                   !.mappers = Append(@, [FreshMapper EXCEPT
                                            !.builds.css = 1]),
                   !.callers[c] = [@ EXCEPT !.pc = "builtCSS", !.self = id]]
       ELSE fac' = [fac EXCEPT
                      !.callers[c] = [@ EXCEPT !.pc = "resolved",
                                               !.result = fac.mapperInstance]]
    /\ UNCHANGED <<runVars, cl, pf, css>>
    /\ LaterFrame("fac")

\* lines 373-376, up to the first await: the null test, the construction,
\* the assignment, and initialize() through buildCSSMappings (lines 38-44);
\* or, an instance being there, line 378
FacCall(c) ==
    /\ fac.callers[c].pc = "idle"
    /\ IF fac.mapperInstance = NoInstance
       THEN LET id == Len(fac.mappers) + 1
            IN  fac' = [fac EXCEPT
                   !.mapperInstance = id,
                   !.mappers = Append(@, [FreshMapper EXCEPT
                                            !.builds.css = 1]),
                   !.callers[c] = [@ EXCEPT !.pc = "builtCSS", !.self = id]]
       ELSE fac' = [fac EXCEPT
                      !.callers[c] = [@ EXCEPT !.pc = "resolved",
                                               !.result = fac.mapperInstance]]
    /\ UNCHANGED <<runVars, cl, pf, css>>
    /\ LaterFrame("fac")

\* line 45: await this.buildJSMappings()
FacBuildJS(c) ==
    /\ fac.callers[c].pc = "builtCSS"
    /\ fac' = [fac EXCEPT !.mappers[fac.callers[c].self].builds.js = @ + 1,
                          !.callers[c].pc = "builtJS"]
    /\ UNCHANGED <<runVars, cl, pf, css>>
    /\ LaterFrame("fac")

\* line 46: await this.buildHTMLMappings()
FacBuildHTML(c) ==
    /\ fac.callers[c].pc = "builtJS"
    /\ fac' = [fac EXCEPT !.mappers[fac.callers[c].self].builds.html = @ + 1,
                          !.callers[c].pc = "builtHTML"]
    /\ UNCHANGED <<runVars, cl, pf, css>>
    /\ LaterFrame("fac")

\* line 47: await this.buildEnhancedMappings()
FacBuildEnhanced(c) ==
    /\ fac.callers[c].pc = "builtHTML"
    /\ fac' = [fac EXCEPT
                 !.mappers[fac.callers[c].self].builds.enhanced = @ + 1,
                 !.callers[c].pc = "builtEnhanced"]
    /\ UNCHANGED <<runVars, cl, pf, css>>
    /\ LaterFrame("fac")

\* lines 49-57: this.initialized = true, and initialize() returns
FacSetInitialized(c) ==
    /\ fac.callers[c].pc = "builtEnhanced"
    /\ fac' = [fac EXCEPT !.mappers[fac.callers[c].self].initialized = TRUE,
                          !.callers[c].pc = "initialized"]
    /\ UNCHANGED <<runVars, cl, pf, css>>
    /\ LaterFrame("fac")

\* line 378, after the await of line 376: return mapperInstance
FacReturn(c) ==
    /\ fac.callers[c].pc = "initialized"
    /\ fac' = [fac EXCEPT !.callers[c] = [@ EXCEPT
                                            !.pc = "resolved",
                                            !.result = fac.mapperInstance]]
    /\ UNCHANGED <<runVars, cl, pf, css>>
    /\ LaterFrame("fac")

\* language-server.ts line 54: the caller's await settles; it keeps the
\* mapper it was given and goes on to query it
FacResume(c) ==
    /\ fac.callers[c].pc = "resolved"
    /\ fac' = [fac EXCEPT
                 !.callers[c] = [@ EXCEPT
                    !.pc = "holds",
                    !.saw = IF fac.callers[c].result = NoInstance THEN FALSE
                            ELSE fac.mappers[fac.callers[c].result]
                                    .initialized]]
    /\ UNCHANGED <<runVars, cl, pf, css>>
    /\ LaterFrame("fac")

FactoryNext ==
    \E c \in Callers :
        \/ FacCall(c)
        \/ FacBuildJS(c)
        \/ FacBuildHTML(c)
        \/ FacBuildEnhanced(c)
        \/ FacSetInitialized(c)
        \/ FacReturn(c)
        \/ FacResume(c)

SpecFactory == FactoryInit /\ [][FactoryNext]_vars

(***************************************************************************)
(* One mapping query on a mapper (web-features-mapper.ts 202-353): on a    *)
(* new mapper, on a mapper whose tables are built and whose flag is not    *)
(* yet set (initialize between lines 47 and 49), on an initialized one.    *)
(***************************************************************************)
TablesBuiltMapper == [InitializedMapper EXCEPT !.initialized = FALSE]
MapperStates == {NewWebFeaturesMapper, TablesBuiltMapper, InitializedMapper}

QueryProperties ==
    PropertyNames \cup {v \o p : v \in VendorPrefixes, p \in PropertyNames}
    \cup {"-khtml-backdrop-filter", "anchor-name"}
QuerySelectors ==
    {Text("a:has(b)", {":has("}, <<>>), Text("a", {}, <<>>),
     Text("has", {}, <<>>), Text("dialog::backdrop", {"::backdrop"}, <<>>)}
QueryAtRules == {"container", "media"}
JsCode(str, path, callee, constructorName, has) ==
    [str |-> str, path |-> path, callee |-> callee,
     constructorName |-> constructorName, has |-> has]
QueryJsCodes ==
    { JsCode("fetch(url)", <<"fetch(url)">>, <<"fetch">>, NullId,
             {"fetch("}),
      JsCode("fetch", <<"fetch">>, <<>>, NullId, {}),
      JsCode("new IntersectionObserver(cb)",
             <<"new IntersectionObserver(cb)">>, <<"IntersectionObserver">>,
             "IntersectionObserver", {"new IntersectionObserver"}),
      JsCode("new ResizeObserver(cb)", <<"new ResizeObserver(cb)">>,
             <<"ResizeObserver">>, "ResizeObserver", {"new ResizeObserver"}),
      JsCode("observe(el)", <<"observe(el)">>, <<"observe">>, NullId, {}),
      JsCode("x", <<"x">>, <<>>, NullId, {}) }
QueryElements == {"dialog", "DIALOG", "details", "div"}
QueryAttributes == {"popover", "Popover", "popovertarget", "class"}
QueryContents ==
    { [matches |-> <<>>],
      [matches |-> <<[pattern |-> ":has(", line |-> 1, column |-> 2]>>],
      [matches |-> <<[pattern |-> "<dialog", line |-> 1, column |-> 1],
                     [pattern |-> "fetch(", line |-> 2, column |-> 3],
                     [pattern |-> "<dialog", line |-> 3, column |-> 1]>>] }

NullQueries ==
    {"mapCSSProperty", "mapCSSAtRule", "mapJSProperty", "mapJSMethod",
     "mapJSConstructor", "mapHTMLElement", "mapHTMLAttribute"}
ListQueries == {"mapCSSSelector", "detectFeaturesInContext"}

TokensOf(query) ==
    IF query = "mapCSSProperty" THEN QueryProperties
    ELSE IF query = "mapCSSSelector" THEN QuerySelectors
    ELSE IF query = "mapCSSAtRule" THEN QueryAtRules
    ELSE IF query \in {"mapJSProperty", "mapJSMethod", "mapJSConstructor"}
    THEN QueryJsCodes
    ELSE IF query = "mapHTMLElement" THEN QueryElements
    ELSE IF query = "mapHTMLAttribute" THEN QueryAttributes
    ELSE QueryContents

Answer(mapper, query, token) ==
    IF query = "mapCSSProperty" THEN mapCSSProperty(mapper, token)
    ELSE IF query = "mapCSSSelector" THEN mapCSSSelector(mapper, token)
    ELSE IF query = "mapCSSAtRule" THEN mapCSSAtRule(mapper, token)
    ELSE IF query = "mapJSProperty" THEN mapJSProperty(mapper, token)
    ELSE IF query = "mapJSMethod" THEN mapJSMethod(mapper, token)
    ELSE IF query = "mapJSConstructor" THEN mapJSConstructor(mapper, token)
    ELSE IF query = "mapHTMLElement" THEN mapHTMLElement(mapper, token)
    ELSE IF query = "mapHTMLAttribute" THEN mapHTMLAttribute(mapper, token)
    ELSE detectFeaturesInContext(mapper, token)

\* what a query writes with console.warn: only mapCSSProperty has a
\* console.warn in its guard (lines 203-206); the guards of lines 217, 238,
\* 251, 262, 278, 302, 317 and 323 return with no output
WarningsOf(mapper, query) ==
    IF query = "mapCSSProperty" /\ ~mapper.initialized
    THEN <<"WebFeaturesMapper not initialized">>
    ELSE <<>>

QueryInit ==
    /\ RunIdle
    /\ cl = Idle
    /\ pf = Idle
    /\ css = Idle
    /\ LaterIdle("mq")
    /\ \E mapper \in MapperStates, query \in NullQueries \cup ListQueries :
          \E token \in TokensOf(query) :
             mq = [stage |-> "asked", mapper |-> mapper, query |-> query,
                   token |-> token, result |-> NullId, after |-> mapper,
                   warnings |-> <<>>]

\* the query runs: its result, and the mapper as the query leaves it (no
\* query writes a table or the flag)
MqAnswer ==
    /\ mq.stage = "asked"
    /\ mq' = [mq EXCEPT !.stage = "answered",
                        !.result = Answer(mq.mapper, mq.query, mq.token),
                        !.after = mq.mapper,
                        !.warnings = WarningsOf(mq.mapper, mq.query)]
    /\ UNCHANGED <<runVars, cl, pf, css>>
    /\ LaterFrame("mq")

QueryNext == MqAnswer

SpecQuery == QueryInit /\ [][QueryNext]_vars

(***************************************************************************)
(* generatePatterns (utils/index.ts).  A template or a pattern is the      *)
(* sequence of its parts: literal text, or a placeholder ${name}.          *)
(***************************************************************************)
MaxTemplates == 3

Lit(text) == [ph |-> FALSE, text |-> text]
Ph(name) == [ph |-> TRUE, text |-> name]

CSS_PATTERN_TEMPLATES ==
    << <<Lit("css.properties."), Ph("property")>>,
       <<Lit("css.properties."), Ph("property"), Lit("."), Ph("value")>>,
       <<Lit("css.properties.display."), Ph("value")>>,
       <<Lit("css.at-rules."), Ph("property")>>,
       <<Lit("css.at-rules."), Ph("property"), Lit("."), Ph("value")>>,
       <<Lit("css.selectors."), Ph("property")>>,
       <<Lit("css.selectors."), Ph("property"), Lit("."), Ph("value")>>,
       <<Lit("css.types."), Ph("property")>>,
       <<Lit("css.types."), Ph("property"), Lit("."), Ph("value")>> >>

HTML_PATTERN_TEMPLATES ==
    << <<Lit("html.elements."), Ph("elementName")>>,
       <<Lit("html.elements."), Ph("elementName"), Lit("."), Ph("attribute")>>,
       <<Lit("html.global_attributes."), Ph("attribute")>> >>

\* pattern.includes('${')
IncludesPlaceholder(pattern) == \E k \in DOMAIN pattern : pattern[k].ph

\* pattern.includes('undefined'), over the literal texts of the model
IncludesUndefined(pattern) ==
    \E k \in DOMAIN pattern :
        ~pattern[k].ph /\ pattern[k].text \in {"undefined", "x-undefined"}

\* pattern.replace(new RegExp('\\$\\{key\\}', 'g'), value): every
\* placeholder of that name becomes the value; in a replacement string
\* `$&` stands for the matched text, the placeholder itself
ReplaceAll(pattern, key, value) ==
    FlatMap(LAMBDA part :
               IF part.ph /\ part.text = key
               THEN (IF value = <<Lit("$&")>> THEN <<part>> ELSE value)
               ELSE <<part>>,
            pattern)

\* Object.entries(replacements).forEach: one replace per entry, in order
RECURSIVE Substituted(_, _)
Substituted(pattern, replacements) ==
    IF replacements = <<>> THEN pattern
    ELSE Substituted(ReplaceAll(pattern, Head(replacements).key,
                                Head(replacements).value),
                     Tail(replacements))

generatePatterns_KeepUndefined(templates, replacements) ==
    FilterSeq(LAMBDA pattern : ~IncludesPlaceholder(pattern),
              MapSeq(LAMBDA template : Substituted(template, replacements),
                     templates))

generatePatterns(templates, replacements) ==
    FilterSeq(LAMBDA pattern :
                 ~IncludesPlaceholder(pattern) /\ ~IncludesUndefined(pattern),
              MapSeq(LAMBDA template : Substituted(template, replacements),
                     templates))

\* inputs: lists over a pool of templates, and replacement maps whose
\* values are a name, the empty string, 'undefined' (also what an
\* undefined value becomes in a replacement), text holding a placeholder,
\* or `$&`
TemplatePool ==
    {CSS_PATTERN_TEMPLATES[1], CSS_PATTERN_TEMPLATES[2],
     CSS_PATTERN_TEMPLATES[3], HTML_PATTERN_TEMPLATES[1]}
ReplacementValues ==
    {<<Lit("grid")>>, <<Lit("")>>, <<Lit("undefined")>>, <<Lit("$&")>>,
     <<Ph("value")>>}
ReplacementMaps ==
    {<<[key |-> "property", value |-> v]>> : v \in ReplacementValues}
    \cup {<<[key |-> "property", value |-> v],
            [key |-> "value", value |-> w]>> :
            v \in ReplacementValues, w \in ReplacementValues}

PatternsInit ==
    /\ RunIdle
    /\ cl = Idle
    /\ pf = Idle
    /\ css = Idle
    /\ LaterIdle("gp")
    /\ \E templates \in SeqsUpTo(TemplatePool, MaxTemplates),
          replacements \in ReplacementMaps :
          gp = [stage |-> "called", templates |-> templates,
                replacements |-> replacements, patterns |-> <<>>]

GpGeneratePatterns ==
    /\ gp.stage = "called"
    /\ gp' = [gp EXCEPT !.stage = "returned",
                        !.patterns = generatePatterns(gp.templates,
                                                      gp.replacements)]
    /\ UNCHANGED <<runVars, cl, pf, css>>
    /\ LaterFrame("gp")

PatternsNext == GpGeneratePatterns

SpecPatterns == PatternsInit /\ [][PatternsNext]_vars

(***************************************************************************)
(* The lazily built Dataset Index and the lookups of utils/index.ts.       *)
(***************************************************************************)
MaxIndexCalls == 2

JS_PATTERN_TEMPLATES ==
    << <<Lit("api."), Ph("apiName")>>,
       <<Lit("api."), Ph("apiName"), Lit("."), Ph("apiName")>>,
       <<Lit("javascript.builtins."), Ph("apiName")>>,
       <<Lit("javascript.builtins."), Ph("apiName"), Lit("."), Ph("apiName")>>,
       <<Lit("javascript.statements."), Ph("apiName")>>,
       <<Lit("javascript.operators."), Ph("apiName")>>,
       <<Lit("javascript.functions."), Ph("apiName")>>,
       <<Lit("javascript.classes."), Ph("apiName")>>,
       <<Lit("javascript.grammar."), Ph("apiName")>>,
       <<Lit("javascript.builtins.globalThis."), Ph("apiName")>>,
       <<Lit("webapi."), Ph("apiName")>> >>

\* the dot-separated segments of a text of the templates; any other text
\* is one segment
Split(text) ==
    CASE text = "." -> <<"", "">>
      [] text = "css.properties." -> <<"css", "properties", "">>
      [] text = "css.properties.display." ->
             <<"css", "properties", "display", "">>
      [] text = "css.at-rules." -> <<"css", "at-rules", "">>
      [] text = "css.selectors." -> <<"css", "selectors", "">>
      [] text = "css.types." -> <<"css", "types", "">>
      [] text = "html.elements." -> <<"html", "elements", "">>
      [] text = "html.global_attributes." -> <<"html", "global_attributes", "">>
      [] text = "api." -> <<"api", "">>
      [] text = "javascript.builtins." -> <<"javascript", "builtins", "">>
      [] text = "javascript.statements." -> <<"javascript", "statements", "">>
      [] text = "javascript.operators." -> <<"javascript", "operators", "">>
      [] text = "javascript.functions." -> <<"javascript", "functions", "">>
      [] text = "javascript.classes." -> <<"javascript", "classes", "">>
      [] text = "javascript.grammar." -> <<"javascript", "grammar", "">>
      [] text = "javascript.builtins.globalThis." ->
             <<"javascript", "builtins", "globalThis", "">>
      [] text = "webapi." -> <<"webapi", "">>
      [] OTHER -> <<text>>

\* the segments of the concatenation of two texts
Join(a, b) ==
    SubSeq(a, 1, Len(a) - 1) \o <<a[Len(a)] \o b[1]>> \o Tail(b)

\* the index key a pattern without placeholders spells
RECURSIVE KeyOf(_)
KeyOf(pattern) ==
    IF pattern = <<>> THEN <<"">>
    ELSE Join(KeyOf(SubSeq(pattern, 1, Len(pattern) - 1)),
              Split(pattern[Len(pattern)].text))

\* for (const pattern of patterns) { const match = index.get(pattern);
\*   if (match) return { ...match, compatFeature: pattern }; }
RECURSIVE FirstMatch(_, _)
FirstMatch(index, patterns) ==
    IF patterns = <<>> THEN Null
    ELSE LET pattern == KeyOf(Head(patterns))
         IN  IF pattern \in DOMAIN index
             THEN [status |-> index[pattern].status,
                   featureName |-> index[pattern].featureName,
                   featureId |-> index[pattern].featureId,
                   compatFeature |-> pattern]
             ELSE FirstMatch(index, Tail(patterns))

\* the keys that loop hands to index.get, in order
RECURSIVE LookedUp(_, _)
LookedUp(index, patterns) ==
    IF patterns = <<>> THEN <<>>
    ELSE <<KeyOf(Head(patterns))>>
         \o (IF KeyOf(Head(patterns)) \in DOMAIN index THEN <<>>
             ELSE LookedUp(index, Tail(patterns)))

\* a.pattern.localeCompare(b.pattern) over the keys of the index
SortedPatterns ==
    << <<"api", "fetch">>,
       <<"api", "IntersectionObserver">>,
       <<"api", "IntersectionObserver", "observe">>,
       <<"backdrop-filter">>,
       <<"container-queries">>,
       <<"css", "at-rules", "container">>,
       <<"css", "properties", "-webkit-line-clamp">>,
       <<"css", "properties", "backdrop-filter">>,
       <<"css", "properties", "display", "grid">>,
       <<"css", "properties", "grid">>,
       <<"css", "selectors", "has">>,
       <<"dialog">>,
       <<"dom">>,
       <<"fetch">>,
       <<"grid">>,
       <<"has">>,
       <<"html", "elements", "button", "attributes", "popovertarget">>,
       <<"html", "elements", "dialog">>,
       <<"html", "global_attributes", "popover">>,
       <<"intersection-observer">>,
       <<"line-clamp">>,
       <<"popover">> >>

\* pattern.toLowerCase().includes(lowerSearchTerm), for search terms
\* without a dot
Substrings ==
    {<<"intersectionobserver", "observer">>,
     <<"intersection-observer", "observer">>,
     <<"intersectionobserver", "observe">>,
     <<"intersection-observer", "observe">>}
PatternIncludes(pattern, lowerSearchTerm) ==
    \/ lowerSearchTerm = ""
    \/ \E k \in DOMAIN pattern :
          \/ Lower(pattern[k]) = lowerSearchTerm
          \/ <<Lower(pattern[k]), lowerSearchTerm>> \in Substrings

findAllMatchingPatterns(index, searchTerm) ==
    LET lowerSearchTerm == Lower(searchTerm)
        sorted == FilterSeq(LAMBDA pattern : pattern \in DOMAIN index,
                            SortedPatterns)
        matching == FilterSeq(LAMBDA pattern :
                                 PatternIncludes(pattern, lowerSearchTerm),
                              sorted)
    IN  [k \in DOMAIN matching |->
            [pattern |-> matching[k], data |-> index[matching[k]]]]

\* value || '' : a missing or empty optional token is the empty string
OrEmpty(token) == IF token = "undefined-token" THEN "" ELSE token

CssPatterns(property, value) ==
    generatePatterns(CSS_PATTERN_TEMPLATES,
        << [key |-> "property", value |-> <<Lit(property)>>],
           [key |-> "value", value |-> <<Lit(OrEmpty(value))>>] >>)

findCSSFeature(index, property, value) ==
    FirstMatch(index, CssPatterns(property, value))

StartsWithApiOrJavascript(pattern) ==
    Len(pattern) >= 2 /\ pattern[1] \in {"api", "javascript"}

JsPatterns(apiName) ==
    generatePatterns(JS_PATTERN_TEMPLATES,
        << [key |-> "apiName", value |-> <<Lit(apiName)>>] >>)

findJSFeature(index, apiName) ==
    LET exact == FirstMatch(index, JsPatterns(apiName))
        allMatches == findAllMatchingPatterns(index, apiName)
        relevant == FilterSeq(LAMBDA match :
                                 StartsWithApiOrJavascript(match.pattern),
                              allMatches)
    IN  IF exact # Null THEN exact
        ELSE IF relevant # <<>>
        THEN [status |-> relevant[1].data.status,
              featureName |-> relevant[1].data.featureName,
              featureId |-> relevant[1].data.featureId,
              compatFeature |-> relevant[1].pattern]
        ELSE Null

HtmlPatterns(elementName, attribute) ==
    generatePatterns(HTML_PATTERN_TEMPLATES,
        << [key |-> "elementName", value |-> <<Lit(elementName)>>],
           [key |-> "attribute", value |-> <<Lit(OrEmpty(attribute))>>] >>)

findHTMLFeature(index, elementName, attribute) ==
    FirstMatch(index, HtmlPatterns(elementName, attribute))

\* getCompatFeaturesIndex as a call on the module state: the module-level
\* compatFeaturesIndex is returned when set, and built by `new Map()` and
\* the loop over the dataset otherwise
IndexCall_Rebuild(m) ==
    [m EXCEPT !.compatFeaturesIndex =
                  [object |-> m.objects + 1,
                   entries |-> getCompatFeaturesIndex],
              !.objects = m.objects + 1,
              !.constructed = m.constructed + 1]

IndexCall(m) ==
    IF m.compatFeaturesIndex # Null THEN m
    ELSE [m EXCEPT !.compatFeaturesIndex =
                       [object |-> m.objects + 1,
                        entries |-> getCompatFeaturesIndex],
                   !.objects = m.objects + 1,
                   !.constructed = m.constructed + 1]

\* tokens of the calls
IndexKeys ==
    {<<"grid">>, <<"css", "properties", "grid">>, <<"anchor-positioning">>,
     <<"css-grid">>}
CssProperties == {"grid", "display", "anchor-name"}
CssValues == {"undefined-token", "", "grid"}
JsNames == {"fetch", "IntersectionObserver", "observer", "", "localStorage"}
HtmlElements == {"dialog", "button", "marquee"}
HtmlAttributes == {"undefined-token", "", "popover"}

IndexInit ==
    /\ RunIdle
    /\ cl = Idle
    /\ pf = Idle
    /\ css = Idle
    /\ LaterIdle("ix")
    /\ ix = [compatFeaturesIndex |-> Null, objects |-> 0, constructed |-> 0,
             log |-> <<>>]

\* one call: the index is fetched first, then read
Logged(m, op, lookups, result) ==
    [m EXCEPT !.log = Append(m.log,
                  [op |-> op, object |-> m.compatFeaturesIndex.object,
                   lookups |-> lookups, result |-> result])]

IxGetCompatFeaturesIndex ==
    /\ Len(ix.log) < MaxIndexCalls
    /\ LET m == IndexCall(ix)
       IN  ix' = Logged(m, "getCompatFeaturesIndex", <<>>,
                        m.compatFeaturesIndex.object)
    /\ UNCHANGED <<runVars, cl, pf, css>>
    /\ LaterFrame("ix")

IxCheckBaselineStatus ==
    /\ Len(ix.log) < MaxIndexCalls
    /\ \E featureIdOrCompat \in IndexKeys :
          LET m == IndexCall(ix)
              index == m.compatFeaturesIndex.entries
          IN  ix' = Logged(m, "checkBaselineStatus", <<featureIdOrCompat>>,
                           IF featureIdOrCompat \in DOMAIN index
                           THEN index[featureIdOrCompat].status
                           ELSE NotBaseline)
    /\ UNCHANGED <<runVars, cl, pf, css>>
    /\ LaterFrame("ix")

IxFindCSSFeature ==
    /\ Len(ix.log) < MaxIndexCalls
    /\ \E property \in CssProperties, value \in CssValues :
          LET m == IndexCall(ix)
          IN  ix' = Logged(m, "findCSSFeature",
                           LookedUp(m.compatFeaturesIndex.entries,
                                    CssPatterns(property, value)),
                           findCSSFeature(m.compatFeaturesIndex.entries,
                                          property, value))
    /\ UNCHANGED <<runVars, cl, pf, css>>
    /\ LaterFrame("ix")

IxFindJSFeature ==
    /\ Len(ix.log) < MaxIndexCalls
    /\ \E apiName \in JsNames :
          LET m == IndexCall(ix)
          IN  ix' = Logged(m, "findJSFeature",
                           LookedUp(m.compatFeaturesIndex.entries,
                                    JsPatterns(apiName)),
                           findJSFeature(m.compatFeaturesIndex.entries,
                                         apiName))
    /\ UNCHANGED <<runVars, cl, pf, css>>
    /\ LaterFrame("ix")

IxFindHTMLFeature ==
    /\ Len(ix.log) < MaxIndexCalls
    /\ \E elementName \in HtmlElements, attribute \in HtmlAttributes :
          LET m == IndexCall(ix)
          IN  ix' = Logged(m, "findHTMLFeature",
                           LookedUp(m.compatFeaturesIndex.entries,
                                    HtmlPatterns(elementName, attribute)),
                           findHTMLFeature(m.compatFeaturesIndex.entries,
                                           elementName, attribute))
    /\ UNCHANGED <<runVars, cl, pf, css>>
    /\ LaterFrame("ix")

IxFindAllMatchingPatterns ==
    /\ Len(ix.log) < MaxIndexCalls
    /\ \E searchTerm \in JsNames :
          LET m == IndexCall(ix)
          IN  ix' = Logged(m, "findAllMatchingPatterns", <<>>,
                           findAllMatchingPatterns(
                               m.compatFeaturesIndex.entries, searchTerm))
    /\ UNCHANGED <<runVars, cl, pf, css>>
    /\ LaterFrame("ix")

IndexNext ==
    \/ IxGetCompatFeaturesIndex
    \/ IxCheckBaselineStatus
    \/ IxFindCSSFeature
    \/ IxFindJSFeature
    \/ IxFindHTMLFeature
    \/ IxFindAllMatchingPatterns

SpecIndex == IndexInit /\ [][IndexNext]_vars

(***************************************************************************)
(* The init command (commands/init.ts).                                    *)
(***************************************************************************)
MaxArgs == 3

\* for (let i = 0; i < args.length; i++): the scan from position k with
\* the options found so far
RECURSIVE ScanInitOptions(_, _, _)
ScanInitOptions(initArgs, k, found) ==
    IF k > Len(initArgs) THEN found
    ELSE IF initArgs[k] = "--preset" /\ k + 1 <= Len(initArgs)
    THEN ScanInitOptions(initArgs, k + 2,
             IF initArgs[k + 1] \in {"strict", "balanced", "legacy"}
             THEN [found EXCEPT !.preset = initArgs[k + 1]]
             ELSE found)
    ELSE IF initArgs[k] = "--force"
    THEN ScanInitOptions(initArgs, k + 1, [found EXCEPT !.force = TRUE])
    ELSE ScanInitOptions(initArgs, k + 1, found)

parseInitOptions(initArgs) ==
    ScanInitOptions(initArgs, 1, [preset |-> "balanced", force |-> FALSE])

PresetRuleNames ==
    {"css-grid", "flexbox", "async-functions", "fetch", "custom-elements",
     "shadow-dom"}

baseConfig ==
    [strict |-> FALSE, targets |-> [baseline |-> "high"],
     rules |-> [n \in {} |-> "off"],
     ignore |-> <<"node_modules/**", "dist/**", "build/**", ".git/**",
                  "*.min.js", "*.min.css">>,
     include |-> <<"src/**", "lib/**", "app/**", "components/**",
                   "styles/**", "*.html", "*.css", "*.js", "*.ts">>,
     autofix |-> FALSE, outputFormat |-> "console"]

createConfigFromPreset(preset) ==
    IF preset = "strict"
    THEN [baseConfig EXCEPT
            !.strict = TRUE,
            !.targets = [baseline |-> "high"],
            !.rules = [n \in PresetRuleNames |-> "error"],
            !.autofix = TRUE]
    ELSE IF preset = "legacy"
    THEN [baseConfig EXCEPT
            !.strict = FALSE,
            !.targets = [baseline |-> "low"],
            !.rules = [n \in PresetRuleNames |->
                          IF n = "shadow-dom" THEN "off" ELSE "warn"],
            !.autofix = FALSE]
    ELSE [baseConfig EXCEPT
            !.strict = FALSE,
            !.targets = [baseline |-> "high"],
            !.rules = [n \in PresetRuleNames |->
                          IF n \in {"css-grid", "custom-elements",
                                    "shadow-dom"}
                          THEN "warn" ELSE "off"],
            !.autofix = FALSE]

\* JSON.stringify(config, null, 2): the text of the file, as the JSON
\* document of that value
JsonText(value) == [json |-> value]

\* .baseline.config.json before the run: absent, or holding some earlier
\* text (hand-written, or an earlier strict preset)
Absent == [absent |-> TRUE]
EarlierTexts == {[text |-> "{ \"strict\": true }"], JsonText(createConfigFromPreset("strict"))}
InitArgTokens == {"--preset", "--force", "strict", "legacy", "modern"}

InitInit ==
    /\ RunIdle
    /\ cl = Idle
    /\ pf = Idle
    /\ css = Idle
    /\ LaterIdle("ini")
    /\ \E initArgs \in SeqsUpTo(InitArgTokens, MaxArgs),
          before \in {Absent} \cup EarlierTexts :
          ini = [stage |-> "start", args |-> initArgs, before |-> before,
                 configFile |-> before, writes |-> 0, exitCode |-> 0]

\* execute, when writeFileSync succeeds (or is not reached)
IniExecute_AlwaysWrite ==
    /\ ini.stage = "start"
    /\ LET parsed == parseInitOptions(ini.args)
       IN  ini' = [ini EXCEPT
                     !.stage = "done",
                     !.configFile =
                         JsonText(createConfigFromPreset(parsed.preset)),
                     !.writes = 1]
    /\ UNCHANGED <<runVars, cl, pf, css>>
    /\ LaterFrame("ini")

IniExecute ==
    /\ ini.stage = "start"
    /\ LET parsed == parseInitOptions(ini.args)
       IN  IF ini.configFile # Absent /\ ~parsed.force
           THEN ini' = [ini EXCEPT !.stage = "done"]
           ELSE ini' = [ini EXCEPT
                          !.stage = "done",
                          !.configFile =
                              JsonText(createConfigFromPreset(parsed.preset)),
                          !.writes = 1]
    /\ UNCHANGED <<runVars, cl, pf, css>>
    /\ LaterFrame("ini")

\* execute, when writeFileSync throws: the error is printed and the
\* process exits with code 1, the file as it was
IniExecuteWriteThrows ==
    /\ ini.stage = "start"
    /\ LET parsed == parseInitOptions(ini.args)
       IN  ~(ini.configFile # Absent /\ ~parsed.force)
    /\ ini' = [ini EXCEPT !.stage = "failed", !.exitCode = 1]
    /\ UNCHANGED <<runVars, cl, pf, css>>
    /\ LaterFrame("ini")

InitNext == IniExecute \/ IniExecuteWriteThrows

SpecInit == InitInit /\ [][InitNext]_vars

(***************************************************************************)
(* The AI provider and API key of a fix run: the commander action of       *)
(* index.ts, parseFixOptions and the resolution in fixCommand.execute.     *)
(***************************************************************************)
\* what the user typed after `baseline fix styles.css`
UserFlags ==
    {[x \in {} |-> ""]}
    \cup {[provider |-> p] : p \in {"openai", "anthropic", "gemini"}}
    \cup {[apiKey |-> "sk-flag"]}
    \cup {[provider |-> p, apiKey |-> "sk-flag"] :
            p \in {"openai", "anthropic", "gemini"}}

\* what loadConfig returns
FixConfigs ==
    {Null,
     [strict |-> FALSE],
     [ai |-> [defaultProvider |-> "openai"]],
     [ai |-> [defaultProvider |-> "anthropic"]],
     [ai |-> [providers |-> [anthropic |-> [apiKey |-> "sk-ant-config"]]]],
     [ai |-> [defaultProvider |-> "anthropic",
              providers |-> [anthropic |-> [apiKey |-> "sk-ant-config"]]]]}

\* process.env: the keys that are set
Environments == SUBSET {"OPENAI_API_KEY", "ANTHROPIC_API_KEY"}

\* .option('--provider <type>', ..., 'openai'): the options commander hands
\* to the action
CommanderFixOptions(flags) ==
    IF "provider" \in DOMAIN flags THEN flags
    ELSE MapSet(flags, "provider", "openai")

\* the action of the fix command: the args given to executeCommand
FixActionArgs(fileArg, cmdOptions) ==
    <<fileArg>>
    \o (IF "provider" \in DOMAIN cmdOptions /\ cmdOptions.provider # ""
        THEN <<"--provider", cmdOptions.provider>> ELSE <<>>)
    \o (IF "apiKey" \in DOMAIN cmdOptions /\ cmdOptions.apiKey # ""
        THEN <<"--api-key", cmdOptions.apiKey>> ELSE <<>>)

\* parseFixOptions: the loop from position k (1-based) with the options
\* found so far; a range is kept as its text
RECURSIVE ScanFixOptions(_, _, _)
ScanFixOptions(fixArgs, k, found) ==
    IF k > Len(fixArgs) THEN found
    ELSE IF k + 1 > Len(fixArgs)
    THEN ScanFixOptions(fixArgs, k + 1, found)
    ELSE IF fixArgs[k] = "--lines"
    THEN ScanFixOptions(fixArgs, k + 2, found)
    ELSE IF fixArgs[k] = "--provider"
    THEN ScanFixOptions(fixArgs, k + 2,
             IF fixArgs[k + 1] \in {"openai", "anthropic"}
             THEN MapSet(found, "provider", fixArgs[k + 1]) ELSE found)
    ELSE IF fixArgs[k] = "--api-key"
    THEN ScanFixOptions(fixArgs, k + 2,
                        MapSet(found, "apiKey", fixArgs[k + 1]))
    ELSE IF fixArgs[k] = "--config"
    THEN ScanFixOptions(fixArgs, k + 2,
                        MapSet(found, "configPath", fixArgs[k + 1]))
    ELSE ScanFixOptions(fixArgs, k + 1, found)

parseFixOptions(fixArgs) ==
    ScanFixOptions(fixArgs, 2, [file |-> fixArgs[1], provider |-> "openai"])

\* config?.ai?.defaultProvider, "" when undefined
DefaultProviderOf(cfg) ==
    IF cfg # Null /\ "ai" \in DOMAIN cfg /\ "defaultProvider" \in DOMAIN cfg.ai
    THEN cfg.ai.defaultProvider ELSE ""

\* options.provider || config?.ai?.defaultProvider || 'openai'
ResolveProvider(fixOptions, cfg) ==
    IF "provider" \in DOMAIN fixOptions /\ fixOptions.provider # ""
    THEN fixOptions.provider
    ELSE IF DefaultProviderOf(cfg) # "" THEN DefaultProviderOf(cfg)
    ELSE "openai"

\* lines 117-124: the flag, then the provider's key of the configuration,
\* then the provider's environment variable; "" when undefined
ResolveApiKey(fixOptions, cfg, provider, env) ==
    LET flag == IF "apiKey" \in DOMAIN fixOptions THEN fixOptions.apiKey
                ELSE ""
        fromConfig ==
            IF /\ flag = ""
               /\ cfg # Null
               /\ "ai" \in DOMAIN cfg
               /\ "providers" \in DOMAIN cfg.ai
               /\ provider \in DOMAIN cfg.ai.providers
            THEN cfg.ai.providers[provider].apiKey
            ELSE flag
        variable == IF provider = "openai" THEN "OPENAI_API_KEY"
                    ELSE "ANTHROPIC_API_KEY"
    IN  IF fromConfig # "" THEN fromConfig
        ELSE IF variable \in env THEN "sk-env" ELSE ""

\* new AIService(apiKey, provider): the key, else either environment
\* variable; without a key the constructor throws
AIServiceOf(apiKey, provider, env) ==
    LET key == IF apiKey # "" THEN apiKey
               ELSE IF env # {} THEN "sk-env" ELSE ""
    IN  IF key = "" THEN Null ELSE [apiKey |-> key, provider |-> provider]

ProviderInit ==
    /\ RunIdle
    /\ cl = Idle
    /\ pf = Idle
    /\ css = Idle
    /\ LaterIdle("pv")
    /\ \E flags \in UserFlags, cfg \in FixConfigs, env \in Environments :
          pv = [stage |-> "typed", flags |-> flags, config |-> cfg,
                env |-> env, args |-> <<>>, aiService |-> Null,
                exitCode |-> 0]

\* index.ts 69-77
PvFixAction ==
    /\ pv.stage = "typed"
    /\ pv' = [pv EXCEPT
                !.stage = "dispatched",
                !.args = FixActionArgs("styles.css",
                                       CommanderFixOptions(pv.flags))]
    /\ UNCHANGED <<runVars, cl, pf, css>>
    /\ LaterFrame("pv")

\* fixCommand.execute on a stylesheet with issues: options, provider, key
\* and the AI service that is then called
PvExecute ==
    /\ pv.stage = "dispatched"
    /\ LET fixOptions == parseFixOptions(pv.args)
           provider == ResolveProvider(fixOptions, pv.config)
           apiKey == ResolveApiKey(fixOptions, pv.config, provider, pv.env)
           aiService == AIServiceOf(apiKey, provider, pv.env)
       IN  IF aiService = Null
           THEN pv' = [pv EXCEPT !.stage = "failed", !.exitCode = 1]
           ELSE pv' = [pv EXCEPT !.stage = "called",
                                 !.aiService = aiService]
    /\ UNCHANGED <<runVars, cl, pf, css>>
    /\ LaterFrame("pv")

ProviderNext == PvFixAction \/ PvExecute

SpecProvider == ProviderInit /\ [][ProviderNext]_vars

(***************************************************************************)
(* The build of the Dataset Index over any small dataset.                  *)
(***************************************************************************)
MaxEntries == 2

\* datasets: entries with distinct ids (the dataset is an object keyed by
\* id), each with a baseline status 'high', 'low' or false and up to two
\* compat keys, which entries may share
DatasetIds == {"grid", "subgrid"}
DatasetKeys == {<<"css", "properties", "grid">>, <<"grid">>}
DatasetEntries ==
    {[id |-> d, name |-> d, baseline |-> b, compat_features |-> c] :
        d \in DatasetIds, b \in {"high", "low", NotBaseline},
        c \in SeqsUpTo(DatasetKeys, 2)}
Datasets ==
    {ds \in SeqsUpTo(DatasetEntries, MaxEntries) :
        \A j, k \in DOMAIN ds : j # k => ds[j].id # ds[k].id}

BuildInit ==
    /\ RunIdle
    /\ cl = Idle
    /\ pf = Idle
    /\ css = Idle
    /\ LaterIdle("bi")
    /\ \E ds \in Datasets :
          bi = [stage |-> "start", dataset |-> ds, index |-> EmptyMap]

\* getCompatFeaturesIndex, first call: new Map() and the loop over the
\* entries of the dataset
BiBuild ==
    /\ bi.stage = "start"
    /\ bi' = [bi EXCEPT !.stage = "built",
                        !.index = BuildIndex(EmptyMap, bi.dataset)]
    /\ UNCHANGED <<runVars, cl, pf, css>>
    /\ LaterFrame("bi")

BuildNext == BiBuild

SpecBuild == BuildInit /\ [][BuildNext]_vars

(***************************************************************************)
(* The JS walker on a call expression (language-server.ts): the handlers   *)
(* of CallExpression and PropertyAccessExpression nodes.                   *)
(***************************************************************************)
\* A callee: an identifier, or object.method with the text of the object.
\* path is the dotted text object.method; callee and has are what
\* /(\w+(?:\.\w+)*)\s*\(/ and the enhanced patterns find in that text,
\* which holds a parenthesis only when the object is itself a call.
Callee(kind, str, path, callee, has) ==
    [kind |-> kind, str |-> str, path |-> path, callee |-> callee,
     has |-> has]
Callees ==
    { Callee("Identifier", "fetch", <<"fetch">>, <<>>, {}),
      Callee("Identifier", "observe", <<"observe">>, <<>>, {}),
      Callee("Identifier", "requestAnimationFrame",
             <<"requestAnimationFrame">>, <<>>, {}),
      Callee("Identifier", "run", <<"run">>, <<>>, {}),
      Callee("PropertyAccessExpression", "IntersectionObserver.observe",
             <<"IntersectionObserver", "observe">>, <<>>, {}),
      Callee("PropertyAccessExpression", "io.observe",
             <<"io", "observe">>, <<>>, {}),
      Callee("PropertyAccessExpression", "Reflect.has",
             <<"Reflect", "has">>, <<>>, {}),
      Callee("PropertyAccessExpression", "Promise.allSettled",
             <<"Promise", "allSettled">>, <<>>, {}),
      Callee("PropertyAccessExpression", "fetch(url).then",
             <<"fetch(url)", "then">>, <<"fetch">>, {"fetch("}),
      Callee("ParenthesizedExpression", "(f)", <<>>, <<>>, {}) }
CallPositions == {<<1, 1>>, <<2, 5>>, <<3, 1>>}

JsFeature(name, node, context) ==
    [name |-> name, line |-> node.line, column |-> node.column,
     context |-> context]

globalFunctions ==
    ("fetch" :> "fetch")
    @@ ("requestAnimationFrame" :> "requestanimationframe")
    @@ ("requestIdleCallback" :> "requestidlecallback")
    @@ ("queueMicrotask" :> "queuemicrotask")

\* functionName.includes('Promise.allSettled') and the like, on a dotted
\* path
IncludesMember(path, object, member) ==
    \E k \in 1..(Len(path) - 1) : path[k] = object /\ path[k + 1] = member

handleJSMethodCall(mapper, node) ==
    LET expression == node.expression
        functionName ==
            IF expression.kind \in {"Identifier", "PropertyAccessExpression"}
            THEN expression.str ELSE ""
        compatFeature ==
            mapJSMethod(mapper,
                        JsCode(functionName, expression.path,
                               expression.callee, NullId, expression.has))
    IN  IF functionName = "" THEN <<>>
        ELSE (IF compatFeature # NullId
              THEN <<JsFeature(compatFeature, node,
                       "JS method call: " \o functionName \o "()")>>
              ELSE <<>>)
             \o (IF functionName \in DOMAIN globalFunctions
                 THEN <<JsFeature(globalFunctions[functionName], node,
                          "JS function: " \o functionName \o "()")>>
                 ELSE <<>>)
             \o (IF IncludesMember(expression.path, "Promise", "allSettled")
                 THEN <<JsFeature("promise-allsettled", node,
                                  "Promise.allSettled()")>>
                 ELSE IF IncludesMember(expression.path, "Promise", "any")
                 THEN <<JsFeature("promise-any", node, "Promise.any()")>>
                 ELSE <<>>)
             \o (IF Len(expression.path) > 1 /\ expression.path[1] = "Reflect"
                 THEN <<JsFeature("reflect", node,
                          "Reflect API: " \o functionName \o "()")>>
                 ELSE <<>>)

handleJSPropertyAccess(mapper, node) ==
    LET compatFeature ==
            mapJSProperty(mapper,
                          JsCode(node.str, node.path, node.callee, NullId,
                                 node.has))
    IN  IF compatFeature # NullId
        THEN <<JsFeature(compatFeature, node,
                         "JS property access: " \o node.str)>>
        ELSE <<>>

\* the switch of traverse in extractJSFeatures, for the node kinds of a
\* call statement
HandleJsNode(mapper, node) ==
    IF node.kind = "CallExpression" THEN handleJSMethodCall(mapper, node)
    ELSE IF node.kind = "PropertyAccessExpression"
    THEN handleJSPropertyAccess(mapper, node)
    ELSE <<>>

\* ts.createSourceFile on `callee(args);` written at a position: the call
\* expression and, as its first child, the callee starting at the same
\* position
CallTree(callee, position) ==
    LET expression ==
            [kind |-> callee.kind, str |-> callee.str, path |-> callee.path,
             callee |-> callee.callee, has |-> callee.has,
             line |-> position[1], column |-> position[2],
             children |-> <<>>]
    IN  [kind |-> "CallExpression", expression |-> expression,
         line |-> position[1], column |-> position[2],
         children |-> <<expression>>]

JsCallInit ==
    /\ RunIdle
    /\ cl = Idle
    /\ pf = Idle
    /\ css = Idle
    /\ LaterIdle("js")
    /\ \E callee \in Callees, position \in CallPositions :
          js = [stage |-> "source", callee |-> callee,
                position |-> position, pending |-> <<>>, features |-> <<>>]

\* parseJavaScript: the source file is created and traverse starts
JsParse ==
    /\ js.stage = "source"
    /\ js' = [js EXCEPT !.stage = "walking",
                        !.pending = <<CallTree(js.callee, js.position)>>]
    /\ UNCHANGED <<runVars, cl, pf, css>>
    /\ LaterFrame("js")

\* traverse(node): the node's handler, then ts.forEachChild(node, traverse)
JsTraverse ==
    /\ js.stage = "walking"
    /\ js.pending # <<>>
    /\ LET node == Head(js.pending)
       IN  js' = [js EXCEPT
                    !.features = @ \o HandleJsNode(InitializedMapper, node),
                    !.pending = node.children \o Tail(js.pending)]
    /\ UNCHANGED <<runVars, cl, pf, css>>
    /\ LaterFrame("js")

JsReturn ==
    /\ js.stage = "walking"
    /\ js.pending = <<>>
    /\ js' = [js EXCEPT !.stage = "done"]
    /\ UNCHANGED <<runVars, cl, pf, css>>
    /\ LaterFrame("js")

JsCallNext == JsParse \/ JsTraverse \/ JsReturn

SpecJsCall == JsCallInit /\ [][JsCallNext]_vars

(***************************************************************************)
(* The configuration files on disk and their loading (utils/index.ts      *)
(* loadConfig, commands/check.ts execute lines 13-22).                     *)
(***************************************************************************)
\* the paths loadConfig may read: the --config argument, then the two
\* default names in the working directory
ConfigPath == 1
DefaultConfigPaths == <<2, 3>>

\* what JSON.parse yields for the texts of the model: a configuration
\* object, with or without a key BaselineConfig does not declare
ParsedConfigs ==
    {[strict |-> TRUE, targets |-> [baseline |-> "low"], rules |-> <<>>],
     [strict |-> TRUE, targets |-> [baseline |-> "low"], rules |-> <<>>,
      colour |-> "blue"]}

\* a file's text: one JSON.parse throws on, or one it parses
ConfigTexts ==
    {[valid |-> FALSE]} \cup {[valid |-> TRUE, value |-> v] : v \in ParsedConfigs}

ConfigDisks == [1..3 -> ConfigTexts \cup {Absent}]

\* line 239: pathsToCheck
PathsToCheck(configPathGiven) ==
    IF configPathGiven THEN <<ConfigPath>> \o DefaultConfigPaths
    ELSE DefaultConfigPaths

\* lines 241-253: the first file that exists and parses is returned; one
\* that exists and does not parse leaves a warning and the loop goes on
RECURSIVE LoadFrom(_, _, _)
LoadFrom(disk, paths, warnings) ==
    IF paths = <<>> THEN [config |-> Null, warnings |-> warnings]
    ELSE LET configPath == Head(paths)
         IN  IF disk[configPath] = Absent
             THEN LoadFrom(disk, Tail(paths), warnings)
             ELSE IF disk[configPath].valid
                  THEN [config |-> disk[configPath].value,
                        warnings |-> warnings]
                  ELSE LoadFrom(disk, Tail(paths),
                         Append(warnings,
                           [text |-> "Warning: Could not parse config file",
                            path |-> configPath]))

loadConfig(disk, configPathGiven) ==
    LoadFrom(disk, PathsToCheck(configPathGiven), <<>>)

LoadInit ==
    /\ lc \in [stage : {"start"}, disk : ConfigDisks,
               configPathGiven : BOOLEAN, strict : BOOLEAN]
    /\ RunIdle /\ cl = Idle /\ pf = Idle /\ css = Idle
    /\ LaterIdle("lc")

\* check.ts lines 13-22: loadConfig(options.configFile) ||
\* getDefaultConfig(), then the command line's strict over the file's
LcExecute ==
    /\ lc.stage = "start"
    /\ LET opts == parseCheckOptions([strict |-> lc.strict])
           loaded == loadConfig(lc.disk, lc.configPathGiven)
           chosen == IF loaded.config # Null THEN loaded.config
                     ELSE getDefaultConfig
       IN  lc' = [stage |-> "loaded", disk |-> lc.disk,
                  configPathGiven |-> lc.configPathGiven,
                  strict |-> lc.strict,
                  warnings |-> loaded.warnings,
                  config |-> IF "strict" \in DOMAIN opts
                             THEN [chosen EXCEPT !.strict = opts.strict]
                             ELSE chosen]
    /\ UNCHANGED <<runVars, cl, pf, css>> /\ LaterFrame("lc")

LoadNext == LcExecute

SpecLoad == LoadInit /\ [][LoadNext]_vars

(***************************************************************************)
(* The JS API table over a dataset, and the lookups that read it           *)
(* (web-features-mapper.ts buildJSMappings, mapJSProperty, mapJSMethod).   *)
(***************************************************************************)
\* entries of the dataset: top-level functions (one of them camelCase), a
\* constructor with a member, a CSS property, an entry without compat keys
JsEntries ==
    { [id |-> "fetch", compat_features |-> << <<"api", "fetch">> >>],
      [id |-> "structured-clone",
       compat_features |-> << <<"api", "structuredClone">> >>],
      [id |-> "intersection-observer",
       compat_features |-> << <<"api", "IntersectionObserver">>,
                              <<"api", "IntersectionObserver", "observe">> >>],
      [id |-> "grid",
       compat_features |-> << <<"css", "properties", "grid">> >>],
      [id |-> "dom", compat_features |-> <<>>] }

JsDatasets == SeqsUpTo(JsEntries, MaxEntries)

\* the top-level function APIs of a dataset: api.<name>, no dot in the
\* name, first letter lower-case
TopLevelFunctions(dataset) ==
    {name \in {"fetch", "structuredClone"} :
        \E j \in DOMAIN dataset :
           \E k \in DOMAIN dataset[j].compat_features :
              dataset[j].compat_features[k] = <<"api", name>>}

\* the text of a look-up of the name itself: the property access `name`,
\* the call `name(x)`
NameAccess(name) == JsCode(name, <<name>>, <<>>, NullId, {})
NameCall(name) ==
    JsCode(name \o "(x)", <<name \o "(x)">>, <<name>>, NullId,
           IF name = "fetch" THEN {"fetch("} ELSE {})

JsTableInit ==
    /\ jt \in [stage : {"start"}, dataset : JsDatasets]
    /\ RunIdle /\ cl = Idle /\ pf = Idle /\ css = Idle
    /\ LaterIdle("jt")

\* lines 83-118: buildJSMappings over the whole dataset
JtBuildJSMappings ==
    /\ jt.stage = "start"
    /\ jt' = [stage |-> "built", dataset |-> jt.dataset,
              tables |-> BuildJsTables([jsAPIs |-> EmptyMap,
                                        jsConstructors |-> EmptyMap],
                                       jt.dataset)]
    /\ UNCHANGED <<runVars, cl, pf, css>> /\ LaterFrame("jt")

\* lines 250-275: one of the two lookups, for a name of the dataset
JtLookup ==
    /\ jt.stage = "built"
    /\ \E name \in TopLevelFunctions(jt.dataset),
          query \in {"mapJSProperty", "mapJSMethod"} :
          LET mapper == [InitializedMapper EXCEPT
                            !.jsAPIs = jt.tables.jsAPIs,
                            !.jsConstructors = jt.tables.jsConstructors]
          IN  jt' = [stage |-> "looked", dataset |-> jt.dataset,
                     tables |-> jt.tables, name |-> name, query |-> query,
                     result |-> IF query = "mapJSProperty"
                                THEN mapJSProperty(mapper, NameAccess(name))
                                ELSE mapJSMethod(mapper, NameCall(name))]
    /\ UNCHANGED <<runVars, cl, pf, css>> /\ LaterFrame("jt")

JsTableNext == JtBuildJSMappings \/ JtLookup

SpecJsTable == JsTableInit /\ [][JsTableNext]_vars

(***************************************************************************)
(* Claims about the classifier (SpecClassify).                             *)
(***************************************************************************)
Classified == cl.stage \in {"targeted", "counted"}
ClRule(name) == RuleOf(cl.config.rules, name)
IndexStatus(name) ==
    IF Key(name) \in DOMAIN getCompatFeaturesIndex
    THEN getCompatFeaturesIndex[Key(name)].status ELSE NotBaseline

\* C1: the result set of a file holds no entry whose feature has the rule
\* 'off' (after applyConfigRules and after applyTargetBaseline), and the
\* file's error and warning counts count no such entry.
C1_RuleOffRemoved ==
    /\ cl.stage \in {"ruled", "targeted", "counted"} =>
          \A k \in DOMAIN cl.ruled : ClRule(cl.ruled[k].feature) # "off"
    /\ Classified =>
          \A k \in DOMAIN cl.final : ClRule(cl.final[k].feature) # "off"
    /\ cl.stage = "counted" =>
          cl.errors + cl.warnings <=
             Cardinality({k \in DOMAIN cl.detected :
                            ClRule(cl.detected[k].name) # "off"})

C1_Witness ==
    /\ cl.stage = "counted"
    /\ Len(cl.detected) = 2
    /\ cl.detected[1].name = "fetch" /\ ClRule("fetch") = "off"
    /\ cl.detected[2].name = "css-grid"
    /\ Len(cl.final) = 1 /\ cl.errors = 1

\* C2: convertToFeatureResult gives one result per detected feature, with
\* its name, line and column, the status the Dataset Index stores under the
\* name (false when the name is no key), and the severity of that status.
C2_ConvertToFeatureResult ==
    cl.stage \notin {"idle", "detected"} =>
        /\ Len(cl.converted) = Len(cl.detected)
        /\ \A k \in DOMAIN cl.detected :
              LET d == cl.detected[k]
                  r == cl.converted[k]
              IN  /\ r.feature = d.name
                  /\ r.line = d.line
                  /\ r.column = d.column
                  /\ r.status = IndexStatus(d.name)
                  /\ r.status = NotBaseline => r.severity = "error"
                  /\ r.status = "low" => r.severity = "warn"
                  /\ r.status = "high" => r.severity = "info"

C2_Witness ==
    /\ cl.stage = "converted"
    /\ Len(cl.detected) = 2
    /\ cl.detected[1].name = "has" /\ cl.detected[1].line = 2
    /\ cl.converted[1].status = "low" /\ cl.converted[1].column = 3
    /\ cl.detected[2].name = "css-grid"
    /\ cl.converted[2].severity = "error"

\* C3: a feature whose configured rule is 'error' or 'warn' has that
\* severity at the end of classification, whatever its status and whatever
\* targets.baseline is.
C3_RuleSeverityIsFinal ==
    Classified =>
        \A k \in DOMAIN cl.final :
            ClRule(cl.final[k].feature) \in {"error", "warn"} =>
                cl.final[k].severity = ClRule(cl.final[k].feature)

\* C4: applyTargetBaseline keeps the number and order of results and every
\* field but severity; target 'low' turns (status low, severity warn) into
\* info and leaves results of status high or false alone; target 'high'
\* returns the list unchanged.
C4_TargetBaseline ==
    Classified =>
        /\ Len(cl.final) = Len(cl.ruled)
        /\ \A k \in DOMAIN cl.ruled :
              LET before == cl.ruled[k]
                  after == cl.final[k]
              IN  /\ [after EXCEPT !.severity = before.severity] = before
                  /\ (cl.config.targets.baseline = "low"
                        /\ before.status = "low" /\ before.severity = "warn")
                       => after.severity = "info"
                  /\ before.status \in {"high", NotBaseline}
                       => after = before
        /\ cl.config.targets.baseline = "high" => cl.final = cl.ruled

C4_Witness ==
    /\ cl.stage = "targeted"
    /\ cl.config.targets.baseline = "low"
    /\ Len(cl.ruled) = 2
    /\ cl.ruled[1].status = "high" /\ cl.ruled[1].severity = "warn"
    /\ cl.ruled[2].status = "low" /\ cl.ruled[2].severity = "warn"
    /\ cl.final[1].severity = "warn" /\ cl.final[2].severity = "info"

(***************************************************************************)
(* Claims about the check run (Spec).                                      *)
(***************************************************************************)
AllFilesProcessed == pc = "done" /\ nFiles > 0 /\ i > nFiles
Aborted == pc = "done" /\ exitCode = 1 /\ i <= nFiles
FilePassed(r, strict) == r.errors = 0 /\ (strict => r.warnings = 0)

\* C5: a run that processed all its files exits with 1 iff there is an
\* error, or strict mode is on and there is a warning; equivalently iff a
\* file has passed = false, a file passing when it has no error and, in
\* strict mode, no warning.  Strict mode is config.strict as the run has it
\* in effect.
C5_ExitCode ==
    AllFilesProcessed =>
        /\ exitCode \in {0, 1}
        /\ exitCode = 1 <=>
              (totalErrors > 0 \/ (config.strict /\ totalWarnings > 0))
        /\ exitCode = 1 <=> \E k \in DOMAIN results : ~results[k].passed
        /\ \A k \in DOMAIN results :
              /\ results[k].passed <=> FilePassed(results[k], config.strict)
              /\ results[k].errors =
                    CountSeq(LAMBDA r : r.severity = "error",
                             results[k].features)
              /\ results[k].warnings =
                    CountSeq(LAMBDA r : r.severity = "warn",
                             results[k].features)

C5_Witness ==
    /\ AllFilesProcessed
    /\ nFiles = 2
    /\ config.strict
    /\ totalErrors = 0 /\ totalWarnings = 1
    /\ results[1].passed /\ ~results[2].passed
    /\ exitCode = 1

\* C6: strict mode is in effect whenever the loaded configuration has
\* strict: true, also without --strict: a run whose files have a warning
\* and no error then marks a file failed and exits with 1.
C6_ConfigStrictInEffect ==
    (/\ AllFilesProcessed
     /\ configFile # Null
     /\ configFile.strict
     /\ totalErrors = 0 /\ totalWarnings > 0)
      => (exitCode = 1 /\ \E k \in DOMAIN results : ~results[k].passed)

\* C7: an input error of one file (FileSystemError, FileSizeError) is
\* reported for that file only: it does not end the run while files of the
\* queue are still unchecked.
C7_InputErrorIsPerFile ==
    outcome.kind \in {"FileSystemError", "FileSizeError"} => ~Aborted

\* C9: an exception raised while parsing or walking does not leave the
\* parser: parseFile returns, the features collected before the exception
\* are its results, the parse result carries one error entry, the file gets
\* its entry in results and the run goes on with the queue.
WalkThrew ==
    /\ file # NoFile
    /\ file.exists /\ file.readable /\ file.size <= MAX_FILE_SIZE
    /\ file.source.throwAt # None

C9_ParseErrorIsNotFatal ==
    WalkThrew =>
        /\ outcome.kind = "returned"
        /\ Len(outcome.parseErrors) = 1
        /\ outcome.results =
              MapSeq(convertToFeatureResult,
                     SubSeq(file.source.detected, 1, file.source.throwAt))
        /\ ~Aborted
        /\ Len(results) = i - 1
        /\ i > 1

C9_Witness ==
    /\ WalkThrew
    /\ file.source.throwAt = 1 /\ Len(file.source.detected) = 2
    /\ Len(outcome.results) = 1
    /\ pc = "loop" /\ nFiles = 2 /\ i = 2 /\ Len(results) = 1

(***************************************************************************)
(* Claims about parseFile (SpecParse).                                     *)
(***************************************************************************)
\* C8: parseCSS, parseJS and parseHTML reject a file of more than 10 MiB
\* with FileSizeError, before its content is read and before the parser
\* runs, and return no result list; a file of at most 10 MiB is never
\* rejected for its size.
C8_FileSizeLimit ==
    (pf.stage = "settled" /\ pf.file.ext \in {"css", "js", "html"}
        /\ pf.file.exists) =>
        /\ pf.file.size > 10 * 1024 * 1024 =>
              /\ pf.outcome.kind = "FileSizeError"
              /\ ~pf.outcome.contentRead
              /\ ~pf.outcome.parserInvoked
              /\ pf.outcome.results = <<>>
        /\ pf.file.size <= 10 * 1024 * 1024 =>
              pf.outcome.kind # "FileSizeError"

C8_Witness ==
    /\ pf.stage = "settled"
    /\ pf.file.ext = "js" /\ pf.file.exists /\ pf.file.readable
    /\ pf.file.size = 10 * 1024 * 1024 + 1
    /\ Len(pf.file.source.detected) = 2
    /\ pf.outcome.kind = "FileSizeError"

(***************************************************************************)
(* Claims about the CSS walker (SpecCss).                                  *)
(***************************************************************************)
\* the feature ids the walker's tables give one declaration, one selector
DeclIds(d) ==
    LET m == mapCSSProperty(InitializedMapper, d.property)
        v == checkCSSPropertyValue(d.property, d.value)
    IN  (IF m # NullId THEN {m} ELSE {}) \cup {v[k] : k \in DOMAIN v}
SelectorIds(sel) ==
    LET m == mapCSSSelector(InitializedMapper,
                            Text(sel.str, sel.has, <<>>))
    IN  {m[k] : k \in DOMAIN m}
        \cup {advancedSelectors[k].name :
                k \in {j \in DOMAIN advancedSelectors :
                         advancedSelectors[j].pattern \in sel.has}}
Occurrences(src, id) ==
    Cardinality({k \in DOMAIN src.decls : id \in DeclIds(src.decls[k])})
    + (IF id \in SelectorIds(src.selector) THEN 1 ELSE 0)
Emitted(id) == CountSeq(LAMBDA f : f.name = id, css.features)
CssIds ==
    {"css-grid", "css-filters", "backdrop-filter", "css-has", "grid"}

\* C10: the CSS walker emits exactly one feature per construct occurrence
\* and feature id: `display: grid` once gives one css-grid, `backdrop-filter:
\* blur(4px)` one backdrop-filter and one css-filters, a selector with
\* `:has(` one css-has.
C10_OneFeaturePerOccurrence ==
    css.stage = "done" =>
        \A id \in CssIds : Emitted(id) = Occurrences(css.source, id)

\* the ids that declarations of the source give
DeclFeatureIds(src) == UNION {DeclIds(src.decls[k]) : k \in DOMAIN src.decls}

\* C11: every feature the CSS walker emits for a declaration carries the
\* line and column of that declaration, never those of the enclosing
\* ruleset: `display: grid;` on line L is reported with line = L.
C11_DeclarationPosition ==
    css.stage = "done" =>
        \A k \in DOMAIN css.features :
            LET f == css.features[k]
                src == css.source
            IN  f.name \in DeclFeatureIds(src) =>
                    \E j \in DOMAIN src.decls :
                        /\ f.name \in DeclIds(src.decls[j])
                        /\ f.line = DeclLine(src, j)
                        /\ f.column = DeclColumn(src, j)

(***************************************************************************)
(* Claims about the fix command's analysis (SpecFix).                      *)
(***************************************************************************)
\* the lines of the file that were analysed
AnalysedFrom == fx.lineOffset + 1
AnalysedTo == fx.lineOffset + Len(fx.contentToAnalyze)

\* C12: the features parseCSS returns carry the line their construct has in
\* the whole file, also when fix analyses only the lines start..end.
C12_LinesReferToWholeFile ==
    fx.stage \in {"parsed", "issues", "requested"} =>
        \A k \in DOMAIN fx.features :
            /\ fx.features[k].line \in AnalysedFrom..AnalysedTo
            /\ fx.lines[fx.features[k].line] = RuleLine(GridRule)

Resolved(c) == fac.callers[c].pc \in {"resolved", "holds"}

\* C14: under any interleaving of concurrent callers at most one mapper is
\* constructed, each of the four build steps of initialize runs at most
\* once, and every caller is given that one instance.
C14_SingleConstruction ==
    /\ Len(fac.mappers) <= 1
    /\ \A k \in DOMAIN fac.mappers :
          \A step \in {"css", "js", "html", "enhanced"} :
              fac.mappers[k].builds[step] <= 1
    /\ \A c \in Callers :
          Resolved(c) => /\ fac.callers[c].result # NoInstance
                         /\ fac.callers[c].result = fac.mapperInstance

C14_Witness ==
    /\ \A c \in Callers : fac.callers[c].pc = "holds"
    /\ \E c \in Callers : ~fac.callers[c].saw
    /\ Len(fac.mappers) = 1
    /\ fac.mappers[1].initialized

\* C15: a caller that arrives while an initialization is in flight waits
\* for it: no call to getWebFeaturesMapper resolves with a mapper whose
\* initialized flag is false, and no caller goes on with such a mapper.
C15_ResolvesInitialized ==
    \A c \in Callers :
        /\ fac.callers[c].pc = "resolved"
              => fac.mappers[fac.callers[c].result].initialized
        /\ fac.callers[c].pc = "holds" => fac.callers[c].saw

(***************************************************************************)
(* Claims about the mapping queries (SpecQuery).                           *)
(***************************************************************************)
Answered(query) == mq.stage = "answered" /\ mq.query = query

\* C16: a query on a mapper whose initialized flag is false returns no
\* match (null, or the empty list for the list-returning queries) and
\* leaves the mapper's tables and flag as they were.
C16_UninitializedNoMatch ==
    mq.stage = "answered" /\ ~mq.mapper.initialized =>
        /\ mq.query \in NullQueries => mq.result = NullId
        /\ mq.query \in ListQueries => mq.result = <<>>
        /\ mq.after = mq.mapper

C16_Witness ==
    /\ Answered("mapHTMLAttribute")
    /\ mq.mapper = TablesBuiltMapper
    /\ mq.token = "popover"
    /\ Key("popover") \in DOMAIN mq.mapper.htmlAttributes
    /\ mq.result = NullId

DirectMatch(mapper, query, token) ==
    IF query = "mapCSSAtRule" THEN MapGet(mapper.cssAtRules, Key(token))
    ELSE IF query = "mapJSProperty"
    THEN MapGet(mapper.jsAPIs, LowerPath(token.path))
    ELSE IF query = "mapJSMethod"
    THEN (IF token.callee = <<>> THEN NullId
          ELSE MapGet(mapper.jsAPIs, LowerPath(token.callee)))
    ELSE IF query = "mapJSConstructor"
    THEN (IF token.constructorName = NullId THEN NullId
          ELSE MapGet(mapper.jsConstructors, Key(token.constructorName)))
    ELSE MapGet(mapper.htmlElements, Key(Lower(token)))
EnhancedMatch(mapper, query, token) ==
    IF query = "mapCSSAtRule"
    THEN (IF EnhancedGet(mapper, AtKey(token)) = <<>> THEN NullId
          ELSE EnhancedGet(mapper, AtKey(token))[1].compatFeature)
    ELSE IF query = "mapHTMLElement"
    THEN (IF EnhancedGet(mapper, AngleKey(Lower(token))) = <<>> THEN NullId
          ELSE EnhancedGet(mapper, AngleKey(Lower(token)))[1].compatFeature)
    ELSE findEnhancedJSMapping(mapper, token)
BothTables ==
    {"mapCSSAtRule", "mapJSProperty", "mapJSMethod", "mapJSConstructor",
     "mapHTMLElement"}

\* C18: when a token has both a direct table match and an enhanced-mapping
\* match, mapCSSAtRule, mapJSProperty, mapJSMethod, mapJSConstructor and
\* mapHTMLElement return the feature id of the direct match.
C18_DirectBeforeEnhanced ==
    mq.stage = "answered" /\ mq.query \in BothTables /\ mq.mapper.initialized
        => (/\ DirectMatch(mq.mapper, mq.query, mq.token) # NullId
            /\ EnhancedMatch(mq.mapper, mq.query, mq.token) # NullId
            => mq.result = DirectMatch(mq.mapper, mq.query, mq.token))

(***************************************************************************)
(* Claims about generatePatterns (SpecPatterns).                           *)
(***************************************************************************)
\* the substituted templates, and the positions of those that hold neither
\* '${' nor 'undefined'
SubstitutedAt(k) == Substituted(gp.templates[k], gp.replacements)
KeptAt ==
    {k \in DOMAIN gp.templates :
        /\ ~IncludesPlaceholder(SubstitutedAt(k))
        /\ ~IncludesUndefined(SubstitutedAt(k))}
NthKept(n) == CHOOSE k \in KeptAt : Cardinality({m \in KeptAt : m < k}) = n - 1

\* C19: generatePatterns returns exactly the substituted templates that
\* contain neither '${' nor 'undefined', in the order of their templates.
C19_GeneratePatterns ==
    gp.stage = "returned" =>
        /\ \A j \in DOMAIN gp.patterns :
              /\ ~IncludesPlaceholder(gp.patterns[j])
              /\ ~IncludesUndefined(gp.patterns[j])
        /\ Len(gp.patterns) = Cardinality(KeptAt)
        /\ \A j \in DOMAIN gp.patterns :
              gp.patterns[j] = SubstitutedAt(NthKept(j))

C19_Witness ==
    /\ gp.stage = "returned"
    /\ Len(gp.templates) = 3
    /\ Len(gp.patterns) = 1
    /\ gp.patterns[1] = SubstitutedAt(2)
    /\ IncludesUndefined(SubstitutedAt(1))
    /\ IncludesPlaceholder(SubstitutedAt(3))

(***************************************************************************)
(* Claims about the Dataset Index (SpecIndex).                             *)
(***************************************************************************)
\* C20: over any sequence of calls of the index operations the index is
\* constructed at most once, every call uses the same map object, and once
\* constructed the index keeps its entries.
C20_IndexBuiltOnce ==
    [][/\ ix'.constructed <= 1
       /\ \A j \in DOMAIN ix'.log : ix'.log[j].object = ix'.log[1].object
       /\ (ix.compatFeaturesIndex # Null =>
              ix'.compatFeaturesIndex = ix.compatFeaturesIndex)]_vars

C20_Witness ==
    /\ Len(ix.log) = 2
    /\ ix.constructed = 1
    /\ ix.log[1].op = "findJSFeature"
    /\ ix.log[2].op = "findAllMatchingPatterns"
    /\ ix.log[2].result # <<>>
    /\ ix.compatFeaturesIndex.entries = getCompatFeaturesIndex

(***************************************************************************)
(* Claims about the init command (SpecInit).                               *)
(***************************************************************************)
\* what the user asked for, read off the command line: a token that
\* follows an option taking a value is that option's value
RECURSIVE IsOptionValue(_, _)
IsOptionValue(initArgs, k) ==
    /\ k > 1
    /\ initArgs[k - 1] = "--preset"
    /\ ~IsOptionValue(initArgs, k - 1)
ForceGiven(initArgs) ==
    \E k \in DOMAIN initArgs :
        initArgs[k] = "--force" /\ ~IsOptionValue(initArgs, k)
PresetsGiven(initArgs) ==
    {k \in DOMAIN initArgs :
        /\ IsOptionValue(initArgs, k)
        /\ initArgs[k] \in {"strict", "balanced", "legacy"}}
SelectedPreset(initArgs) ==
    IF PresetsGiven(initArgs) = {} THEN "balanced"
    ELSE initArgs[CHOOSE k \in PresetsGiven(initArgs) :
                     \A m \in PresetsGiven(initArgs) : m <= k]

\* C21: init leaves an existing configuration file untouched unless
\* --force is given; with --force, or with no file, the file afterwards
\* holds the configuration of the selected preset.
C21_InitKeepsExistingFile ==
    ini.stage = "done" =>
        IF ini.before # Absent /\ ~ForceGiven(ini.args)
        THEN ini.writes = 0 /\ ini.configFile = ini.before
        ELSE ini.configFile =
                 JsonText(createConfigFromPreset(SelectedPreset(ini.args)))

C21_Witness ==
    /\ ini.stage = "done"
    /\ ini.before \in EarlierTexts
    /\ ini.args = <<"--preset", "legacy", "--force">>
    /\ ini.configFile = JsonText(createConfigFromPreset("legacy"))
    /\ ini.configFile # ini.before

\* C22: with a valid --lines range and the user's approval, the written
\* file is the lines before start, then the AI's output, then the lines
\* after end; nothing is added or removed outside the range.
C22_OnlyRangeReplaced ==
    (fx.stage = "applied" /\ "lineRange" \in DOMAIN fx.options) =>
        LET start == fx.options.lineRange[1]
            end == fx.options.lineRange[2]
        IN  fx.written = SubSeq(fx.lines, 1, start - 1)
                         \o fx.fixedCSS
                         \o SubSeq(fx.lines, end + 1, Len(fx.lines))

(***************************************************************************)
(* Claims about the AI provider of fix (SpecProvider).                     *)
(***************************************************************************)
\* C23: the provider fix calls is the --provider flag when the user gave
\* one, otherwise the configuration's ai.defaultProvider when defined,
\* otherwise 'openai'.
C23_ProviderPrecedence ==
    pv.stage = "called" =>
        IF "provider" \in DOMAIN pv.flags
        THEN (pv.flags.provider \in {"openai", "anthropic"} =>
                 pv.aiService.provider = pv.flags.provider)
        ELSE IF DefaultProviderOf(pv.config) # ""
        THEN pv.aiService.provider = DefaultProviderOf(pv.config)
        ELSE pv.aiService.provider = "openai"

(***************************************************************************)
(* Claims about the build of the Dataset Index (SpecBuild).                *)
(***************************************************************************)
\* the keys an entry lists, and the last entry of the dataset listing a key
KeysOfEntry(e) ==
    {Key(e.id)} \cup {e.compat_features[k] : k \in DOMAIN e.compat_features}
LastListing(key) ==
    CHOOSE j \in DOMAIN bi.dataset :
        /\ key \in KeysOfEntry(bi.dataset[j])
        /\ \A k \in DOMAIN bi.dataset :
              key \in KeysOfEntry(bi.dataset[k]) => k <= j
RecordOfEntry(e) ==
    [status |-> e.baseline, featureName |-> e.name, featureId |-> e.id]

\* C24: once built, the index maps the id and every compat key of every
\* entry with a baseline status ('high', 'low' or false) to the record of
\* the last entry that lists the key.
C24_EveryEntryIndexed ==
    bi.stage = "built" =>
        \A j \in DOMAIN bi.dataset :
            \A key \in KeysOfEntry(bi.dataset[j]) :
                /\ key \in DOMAIN bi.index
                /\ bi.index[key] = RecordOfEntry(bi.dataset[LastListing(key)])

\* C25: no key that findCSSFeature, findJSFeature or findHTMLFeature looks
\* up in the index has an empty path segment, the trace of an empty string
\* substituted for a placeholder.
C25_NoEmptySegmentLookedUp ==
    \A j \in DOMAIN ix.log :
        ix.log[j].op \in {"findCSSFeature", "findJSFeature",
                          "findHTMLFeature"} =>
            \A k \in DOMAIN ix.log[j].lookups :
                \A m \in DOMAIN ix.log[j].lookups[k] :
                    ix.log[j].lookups[k][m] # ""

(***************************************************************************)
(* Claims about at-rules in the CSS walker (SpecAtRule).                   *)
(***************************************************************************)
\* C26: for every at-rule of the fixed table in a stylesheet, the walker
\* emits the table's feature id at the position of the at-rule, whatever
\* node kind the parser gave it.
C26_AtRuleTableFeature ==
    (css.stage = "done" /\ "atRule" \in DOMAIN css.source
       /\ css.source.atRule \in DOMAIN atRuleFeatures) =>
        \E k \in DOMAIN css.features :
            /\ css.features[k].name = atRuleFeatures[css.source.atRule]
            /\ css.features[k].line = css.source.line
            /\ css.features[k].column = 1

(***************************************************************************)
(* Claims about call expressions in the JS walker (SpecJsCall).            *)
(***************************************************************************)
\* C27: when the callee of a call resolves to a name n and the JS API
\* table has an entry for the lower-cased n, the call-expression handler
\* emits the mapped feature id with context 'JS method call: n()' at the
\* position of the call.
C27_MappedCallEmitted ==
    (/\ js.stage = "done"
     /\ js.callee.kind \in {"Identifier", "PropertyAccessExpression"}
     /\ LowerPath(js.callee.path) \in DOMAIN InitializedMapper.jsAPIs) =>
        \E k \in DOMAIN js.features :
            /\ js.features[k].name =
                   InitializedMapper.jsAPIs[LowerPath(js.callee.path)]
            /\ js.features[k].context =
                   "JS method call: " \o js.callee.str \o "()"
            /\ js.features[k].line = js.position[1]
            /\ js.features[k].column = js.position[2]


(***************************************************************************)
(* Claims about the loading of the configuration (SpecLoad).               *)
(***************************************************************************)
\* the file has a configuration error: it does not parse, or it parses to
\* an object with a key the configuration does not have
HasConfigError(text) ==
    \/ ~text.valid
    \/ DOMAIN text.value # DOMAIN getDefaultConfig

ConsultedPaths == {PathsToCheck(lc.configPathGiven)[k] :
                     k \in DOMAIN PathsToCheck(lc.configPathGiven)}

\* C28: when the configuration files the run consults exist only with a
\* configuration error (invalid JSON, or an unknown key), the load leaves
\* a warning and the run goes on with the values of getDefaultConfig
\* (under the command line's strict flag).
C28_ConfigErrorFallsBack ==
    (/\ lc.stage = "loaded"
     /\ \E p \in ConsultedPaths : lc.disk[p] # Absent
     /\ \A p \in ConsultedPaths :
           lc.disk[p] # Absent => HasConfigError(lc.disk[p])) =>
        /\ lc.warnings # <<>>
        /\ lc.config = [getDefaultConfig EXCEPT !.strict = lc.strict]


\* C29: every mapping query answered by a mapper whose initialized flag is
\* false (mapCSSProperty, mapCSSSelector, mapCSSAtRule, mapJSProperty,
\* mapJSMethod, mapJSConstructor, mapHTMLElement, mapHTMLAttribute) leaves
\* a warning.
C29_UninitializedQueryWarns ==
    (/\ mq.stage = "answered"
     /\ ~mq.mapper.initialized
     /\ mq.query \in NullQueries \cup {"mapCSSSelector"}) =>
        mq.warnings # <<>>


(***************************************************************************)
(* Claims about the JS API table (SpecJsTable).                            *)
(***************************************************************************)
\* C30: every key buildJSMappings stores in the JS API table is lower-case,
\* and every top-level function API of the dataset (camelCase names
\* included) is found by mapJSProperty and by mapJSMethod when that exact
\* name is looked up.
C30_StoredKeysFound ==
    /\ jt.stage \in {"built", "looked"} =>
          \A key \in DOMAIN jt.tables.jsAPIs : key = LowerPath(key)
    /\ jt.stage = "looked" => jt.result # NullId

====
